---- MODULE Spec2Model ----
(***************************************************************************)
(* Verification model of the Figma plugin command layer                    *)
(* (src/src/cursor_mcp_plugin/code.js): the execute-command dispatcher,    *)
(* the progress reporter and the batch commands delete_multiple_nodes,     *)
(* set_multiple_text_contents, scan_text_nodes, scan_nodes_by_types,       *)
(* validate_qa_rules and test_qa_validation.                               *)
(*                                                                         *)
(* The plugin runs on one JavaScript thread.  An async handler runs        *)
(* without interruption up to its next await on a host promise or a timer; *)
(* every action below is one such uninterrupted stretch of code.           *)
(***************************************************************************)
EXTENDS Integers, Sequences, FiniteSets, TLC

VARIABLES
  doc,        \* the host document: per node, its mutable host properties
  selection,  \* figma.currentPage.selection, a sequence of node ids
  pc,         \* per execute-command message: where its handler stands
  req,        \* per execute-command message: msg.command and msg.params
  loc,        \* per execute-command message: the handler's local variables
  posted,     \* every message given to figma.ui.postMessage, in order
  genCalls    \* per execute-command message: calls of generateCommandId

vars == <<doc, selection, pc, req, loc, posted, genCalls>>

----------------------------------------------------------------------------
(* Bounds of the model *)

\* longest nodeIds / text list a caller passes
MaxItems == 6
\* largest chunkSize a caller passes to scan_text_nodes
MaxChunkSize == 3
\* value at which the counters of a chunk loop that never ends stop growing;
\* it exceeds the number of nodes of the page, so that no counter of a loop
\* that ends is ever cut
MaxIter == 6
\* number of postMessage calls the history variable posted records
MaxPosted == 20
\* the seconds of the wall clock a report can be generated in
MaxTime == 2

\* const CHUNK_SIZE = 5 of deleteMultipleNodes and setMultipleTextContents
CHUNK_SIZE == 5

----------------------------------------------------------------------------
(* The document *)

\* ids of the nodes of the page; 9 is an id no node has
Nodes == 1..5
MissingId == 9

NodeType(n) ==
  CASE n = 1 -> "FRAME"
    [] n = 2 -> "TEXT"
    [] n = 3 -> "FRAME"
    [] n = 4 -> "TEXT"
    [] n = 5 -> "RECTANGLE"

\* node.children, in document order (absent on leaves)
Children(n) ==
  CASE n = 1 -> <<2, 3, 5>>
    [] n = 3 -> <<4>>
    [] OTHER -> <<>>

HasChildren(n) == n \in {1, 3}

\* node.parent; 0 is the page
Parent(n) ==
  CASE n \in {2, 3, 5} -> 1
    [] n = 4 -> 3
    [] OTHER -> 0

\* node 5 is a sublayer of an instance: the host refuses node.remove() on it
Removable(n) == n # 5

RECURSIVE Subtree(_)
Subtree(n) ==
  {n} \cup UNION {Subtree(Children(n)[k]) : k \in 1..Len(Children(n))}

\* figma.getNodeByIdAsync(id): the live node, or null (0)
GetNodeById(d, id) == IF id \in Nodes /\ d[id].exists THEN id ELSE 0

\* node.remove(): the node and its subtree leave the document
RemoveNode(d, n) ==
  [m \in Nodes |-> IF m \in Subtree(n) THEN [d[m] EXCEPT !.exists = FALSE] ELSE d[m]]

\* the layers of the page as the runs of the commands find them: name,
\* geometry, corner radius (-1: the node has none), font family and size, and
\* whether a visible drop shadow is among the effects
NodeName(n) ==
  CASE n = 1 -> "Home" [] n = 2 -> "Title" [] n = 3 -> "Card" [] n = 4 -> "Label"
    [] n = 5 -> "Photo"
NodeX(n) == CASE n = 1 -> 0 [] n = 2 -> 16 [] n = 3 -> 16 [] n = 4 -> 8 [] n = 5 -> 0
NodeWidth(n) ==
  CASE n = 1 -> 400 [] n = 2 -> 368 [] n = 3 -> 368 [] n = 4 -> 100 [] n = 5 -> 400
CornerRadius(n) == CASE n = 3 -> 6 [] n = 5 -> 0 [] n = 1 -> 0 [] OTHER -> -1
FontFamily(n) == "Brown"
FontSize(n) == IF n = 2 THEN 16 ELSE 12
HasDropShadow(n) == FALSE

\* the four corner radii topLeft, topRight, bottomRight, bottomLeft of a node
\* of uniform radius r; <<>> for a node without corner radii
Uniform(r) == IF r = -1 THEN <<>> ELSE <<r, r, r, r>>

\* the documents a run starts from: which nodes are hidden, and whether text
\* node 4 has figma.mixed fills or a font that cannot be loaded. fills is
\* "solid" (one visible solid black fill), "white" or "orange" (one visible
\* solid fill of that colour), "qa_highlight" (the half opaque orange fill
\* highlightQAElement sets), "none" (an empty array) or "mixed"; strokes
\* is "none" or "qa_highlight"
DocWith(hidden, quirk) ==
  [n \in Nodes |->
      [exists |-> TRUE,
       visible |-> n \notin hidden,
       fills |-> IF n = 4 /\ quirk = "mixedFills" THEN "mixed" ELSE "solid",
       font |-> IF n = 4 /\ quirk = "noFont" THEN "missing" ELSE "ok",
       characters |-> "old",
       name |-> NodeName(n),
       x |-> NodeX(n),
       width |-> NodeWidth(n),
       corners |-> Uniform(CornerRadius(n)),
       family |-> FontFamily(n),
       shadow |-> HasDropShadow(n),
       strokes |-> "none",
       strokeWeight |-> 1]]

InitDocs ==
  {DocWith({}, q) : q \in {"none", "mixedFills", "noFont"}}
  \cup {DocWith(h, "none") : h \in {{3}, {1}}}

----------------------------------------------------------------------------
(* Messages to the UI *)

Slots == {1}

GenIds == {"cmd_a", "cmd_b"}
NoId == "none"

\* the update object of sendProgressUpdate; id is the message being served
ProgressEvent(s, commandId, commandType, status, progress, totalItems, processedItems) ==
  [type |-> "command_progress", id |-> s, commandId |-> commandId,
   commandType |-> commandType, status |-> status, progress |-> progress,
   totalItems |-> totalItems, processedItems |-> processedItems]

ReplyMsg(s, type) ==
  [type |-> type, id |-> s, commandId |-> NoId, commandType |-> "",
   status |-> "", progress |-> 0, totalItems |-> 0, processedItems |-> 0]

\* figma.ui.postMessage, recorded up to MaxPosted messages
Post(log, msgs) ==
  LET all == log \o msgs
  IN  IF Len(all) <= MaxPosted THEN all ELSE SubSeq(all, 1, MaxPosted)

----------------------------------------------------------------------------
(* Arithmetic of the progress values *)

\* Math.round(p / q) for q > 0: halves round up
RoundDiv(p, q) == (2 * p + q) \div (2 * q)

\* Math.ceil(n / k) for n >= 0, k # 0
CeilDiv(n, k) == IF k > 0 THEN (n + k - 1) \div k ELSE 0 - (n \div (0 - k))

\* Math.round(5 + (done / totalChunks) * 90)
ChunkProgress(done, totalChunks) ==
  IF totalChunks > 0 THEN 5 + RoundDiv(90 * done, totalChunks)
  ELSE 5 - ((180 * done + (0 - totalChunks) - 1) \div (2 * (0 - totalChunks)))

Min(a, b) == IF a < b THEN a ELSE b
Max(a, b) == IF a > b THEN a ELSE b

----------------------------------------------------------------------------
(* Requests and handler state *)

NoParams == [present |-> FALSE]

\* a list whose k-th entry walks the alphabet from shift in steps of stride
ListOf(n, alphabet, shift, stride) ==
  [k \in 1..n |-> alphabet[((shift + stride * (k - 1)) % Len(alphabet)) + 1]]

ListsOver(alphabet, strides) ==
  {ListOf(n, alphabet, shift, stride) :
     n \in 0..MaxItems, shift \in 0..(Len(alphabet) - 1), stride \in strides}

\* node ids a caller asks to delete: a text leaf, an unknown id, a container,
\* a node of that container, a node the host does not let go
DeleteIds == <<2, MissingId, 3, 4, 5>>

DeleteParams ==
  {NoParams, [present |-> TRUE, nodeIds |-> [kind |-> "absent"]],
   [present |-> TRUE, nodeIds |-> [kind |-> "notArray"]]}
  \cup {[present |-> TRUE, nodeIds |-> [kind |-> "list", list |-> l]] : l \in ListsOver(DeleteIds, {0, 1})}

NoResult == [success |-> FALSE, nodeId |-> 0, error |-> "pending"]

InitLoc ==
  [commandId |-> NoId,
   items |-> <<>>,          \* nodeIds / text
   chunkIndex |-> 0,
   itemPc |-> <<>>,         \* per item: where its async callback stands
   itemRes |-> <<>>,        \* per item: what its promise resolved to
   itemFills |-> <<>>,      \* per item: originalFills
   nodesToProcess |-> <<>>, \* scan: the collected nodes
   i |-> 0,                 \* scan: index of the chunk loop
   chunkNodes |-> <<>>,
   chunkTextNodes |-> <<>>,
   k |-> 0,                 \* scan: position in the chunk / in the walk
   originalFills |-> "undefined",
   allTextNodes |-> <<>>,
   vparams |-> NoParams,    \* validate: the params validateQARules was called with
   frames |-> <<>>,
   processedNodes |-> 0,
   chunksProcessed |-> 0,
   lap |-> 0,               \* scan: chunksProcessed modulo 2
   results |-> <<>>,
   successCount |-> 0,
   failureCount |-> 0,
   searchData |-> [present |-> FALSE],  \* highlight: the descriptor
   target |-> 0,            \* highlight: targetNode (0: null)
   originalState |-> [fills |-> "", strokes |-> "", strokeWeight |-> 0,
                      effects |-> FALSE],
   highlightError |-> "none",
   timer |-> "none",        \* highlight: the setTimeout of the revert
   ret |-> [kind |-> "none"]]

\* the list taken as one chunk whatever its length
NumChunksWhole(n) == IF n = 0 THEN 0 ELSE 1

\* number of chunks: the length of the chunks array
NumChunks(n) == CeilDiv(n, CHUNK_SIZE)

\* slice(i, i + CHUNK_SIZE - 1): the last item of a full chunk is left out
ChunkItemsShort(n, c) ==
  {k \in 1..n : (k - 1) \div CHUNK_SIZE = c /\ (k - 1) % CHUNK_SIZE < CHUNK_SIZE - 1}

\* positions (1-based) of the items of chunk c (0-based): slice(i, i + CHUNK_SIZE)
ChunkItems(n, c) == {k \in 1..n : (k - 1) \div CHUNK_SIZE = c}

----------------------------------------------------------------------------
(* generateCommandId, code.js 2123: a fresh random string *)

GenerateCommandId(s, id) ==
  /\ id \in GenIds
  /\ genCalls' = [genCalls EXCEPT ![s] = @ + 1]

----------------------------------------------------------------------------
(* delete_multiple_nodes, code.js 2498-2698 *)

\* the callbacks of all the items of the list are started with the chunk
DelBeginChunkAll(l, s, c) ==
  LET n == Len(l.items)
  IN  [log |-> <<ProgressEvent(s, l.commandId, "delete_multiple_nodes", "in_progress",
                               ChunkProgress(c, NumChunks(n)), n,
                               l.successCount + l.failureCount)>>,
       loc |-> [l EXCEPT !.chunkIndex = c,
                         !.itemPc = [k \in 1..n |-> IF l.itemPc[k] = "new"
                                                    THEN "lookup" ELSE l.itemPc[k]]]]

\* the chunk loop's head: the event before the chunk, then chunk.map starts
\* every item's callback, each of which stops at await getNodeByIdAsync
DelBeginChunk(l, s, c) ==
  LET n == Len(l.items)
  IN  [log |-> <<ProgressEvent(s, l.commandId, "delete_multiple_nodes", "in_progress",
                               ChunkProgress(c, NumChunks(n)), n,
                               l.successCount + l.failureCount)>>,
       loc |-> [l EXCEPT !.chunkIndex = c,
                         !.itemPc = [k \in 1..n |-> IF k \in ChunkItems(n, c)
                                                    THEN "lookup" ELSE l.itemPc[k]]]]

\* success: failureCount === 0
DelReturnAllOrNothing(l) ==
  [kind |-> "delete", success |-> l.failureCount = 0,
   succeeded |-> l.successCount, failed |-> l.failureCount,
   total |-> Len(l.items), results |-> l.results, commandId |-> l.commandId]

\* the return value
DelReturn(l) ==
  [kind |-> "delete", success |-> l.successCount > 0,
   succeeded |-> l.successCount, failed |-> l.failureCount,
   total |-> Len(l.items), results |-> l.results, commandId |-> l.commandId]

\* the final event counting the items before the chunks, not the outcomes
DelFinishMiscounted(l, s) ==
  LET n == Len(l.items)
  IN  [log |-> <<ProgressEvent(s, l.commandId, "delete_multiple_nodes", "completed",
                               100, l.successCount, n)>>,
       loc |-> [l EXCEPT !.ret = DelReturn(l)]]

\* the final event and the return
DelFinish(l, s) ==
  LET n == Len(l.items)
  IN  [log |-> <<ProgressEvent(s, l.commandId, "delete_multiple_nodes", "completed",
                               100, n, l.successCount + l.failureCount)>>,
       loc |-> [l EXCEPT !.ret = DelReturn(l)]]

\* entry of deleteMultipleNodes up to its first suspension
DeleteMultipleNodes(s, params) ==
  \E id \in GenIds :
    /\ GenerateCommandId(s, id)
    /\ LET l0 == [InitLoc EXCEPT !.commandId = id]
           bad == \/ ~params.present
                  \/ params.nodeIds.kind # "list"
                  \/ Len(params.nodeIds.list) = 0
       IN  IF bad
           THEN /\ posted' = Post(posted, <<ProgressEvent(s, id, "delete_multiple_nodes",
                                                          "error", 0, 0, 0)>>)
                /\ loc' = [loc EXCEPT ![s] = l0]
                /\ pc' = [pc EXCEPT ![s] = "rejected"]
           ELSE LET n == Len(params.nodeIds.list)
                    l1 == [l0 EXCEPT !.items = params.nodeIds.list,
                                     !.itemPc = [k \in 1..n |-> "new"],
                                     !.itemRes = [k \in 1..n |-> NoResult],
                                     !.itemFills = [k \in 1..n |-> "undefined"]]
                    b == DelBeginChunk(l1, s, 0)
                IN  /\ posted' = Post(posted,
                          <<ProgressEvent(s, id, "delete_multiple_nodes", "started", 0, n, 0),
                            ProgressEvent(s, id, "delete_multiple_nodes", "in_progress", 5, n, 0)>>
                          \o b.log)
                    /\ loc' = [loc EXCEPT ![s] = b.loc]
                    /\ pc' = [pc EXCEPT ![s] = "del_chunk"]
    /\ UNCHANGED doc

\* what one item's callback does once getNodeByIdAsync has resolved
DelItemOutcome(d, nodeId) ==
  LET node == GetNodeById(d, nodeId)
  IN  IF node = 0
      THEN [doc |-> d, res |-> [success |-> FALSE, nodeId |-> nodeId, error |-> "not_found"]]
      ELSE IF ~Removable(node)
      THEN [doc |-> d, res |-> [success |-> FALSE, nodeId |-> nodeId, error |-> "exception"]]
      ELSE [doc |-> RemoveNode(d, node),
            res |-> [success |-> TRUE, nodeId |-> nodeId, error |-> ""]]

\* one item of the running chunk resumes after await getNodeByIdAsync
DelItem(s, k) ==
  /\ pc[s] = "del_chunk"
  /\ k \in 1..Len(loc[s].items)
  /\ loc[s].itemPc[k] = "lookup"
  /\ LET o == DelItemOutcome(doc, loc[s].items[k])
     IN  /\ doc' = o.doc
         /\ loc' = [loc EXCEPT ![s].itemPc[k] = "done", ![s].itemRes[k] = o.res]
  /\ UNCHANGED <<selection, pc, req, posted, genCalls>>

\* chunkResults.forEach: counts and results, in the order of the items
RECURSIVE Tally(_, _, _)
Tally(l, ks, k) ==
  IF k \notin ks THEN l
  ELSE LET r == l.itemRes[k]
           l2 == [l EXCEPT !.successCount = IF r.success THEN @ + 1 ELSE @,
                           !.failureCount = IF r.success THEN @ ELSE @ + 1,
                           !.results = Append(@, r)]
       IN  Tally(l2, ks, k + 1)

\* Promise.all of the chunk has resolved
DelChunkDone(s) ==
  /\ pc[s] = "del_chunk"
  /\ LET l == loc[s]
         n == Len(l.items)
         c == l.chunkIndex
         ks == ChunkItems(n, c)
     IN  /\ \A k \in ks : l.itemPc[k] = "done"
         /\ LET l2 == Tally(l, ks, c * CHUNK_SIZE + 1)
                after == ProgressEvent(s, l.commandId, "delete_multiple_nodes", "in_progress",
                                       ChunkProgress(c + 1, NumChunks(n)), n,
                                       l2.successCount + l2.failureCount)
            IN  IF c < NumChunks(n) - 1
                THEN /\ posted' = Post(posted, <<after>>)
                     /\ loc' = [loc EXCEPT ![s] = l2]
                     /\ pc' = [pc EXCEPT ![s] = "del_delay"]
                ELSE LET f == DelFinish(l2, s)
                     IN  /\ posted' = Post(posted, <<after>> \o f.log)
                         /\ loc' = [loc EXCEPT ![s] = f.loc]
                         /\ pc' = [pc EXCEPT ![s] = "returned"]
  /\ UNCHANGED <<doc, selection, req, genCalls>>

\* the delay(1000) between chunks has passed
DelNextChunk(s) ==
  /\ pc[s] = "del_delay"
  /\ LET b == DelBeginChunk(loc[s], s, loc[s].chunkIndex + 1)
     IN  /\ posted' = Post(posted, b.log)
         /\ loc' = [loc EXCEPT ![s] = b.loc]
  /\ pc' = [pc EXCEPT ![s] = "del_chunk"]
  /\ UNCHANGED <<doc, selection, req, genCalls>>

----------------------------------------------------------------------------
(* set_multiple_text_contents, code.js 1851-2120, with setTextContent        *)
(* (1123-1157) and setCharacters (1195-1249)                                 *)

CallerId == "cmd_c"

\* entries of the text array: nodeId 0 stands for an entry without nodeId
TextEntry(nodeId, hasText) == [nodeId |-> nodeId, hasText |-> hasText]

TextEntries ==
  <<TextEntry(2, TRUE), TextEntry(4, TRUE), TextEntry(MissingId, TRUE), TextEntry(3, TRUE),
    TextEntry(0, TRUE), TextEntry(2, FALSE), TextEntry(2, TRUE)>>

SetTextParams ==
  {NoParams}
  \cup {[present |-> TRUE, nodeId |-> nid, commandId |-> NoId, text |-> [kind |-> k]] :
          nid \in {0, 1}, k \in {"absent", "notArray"}}
  \cup {[present |-> TRUE, nodeId |-> nid, commandId |-> cid, text |-> [kind |-> "list", list |-> l]] :
          nid \in {0, 1}, cid \in {NoId, CallerId}, l \in ListsOver(TextEntries, {1})}

Fail(nodeId, error) == [success |-> FALSE, nodeId |-> nodeId, error |-> error]
Succeed(nodeId) == [success |-> TRUE, nodeId |-> nodeId, error |-> ""]

\* the synchronous head of one item's callback (1948-1963)
SetItemStart(entry) ==
  IF entry.nodeId = 0 \/ ~entry.hasText
  THEN [pc |-> "done", res |-> Fail(entry.nodeId, "missing_fields")]
  ELSE [pc |-> "lookup", res |-> NoResult]

\* of the chunk only the callback of its first item is started
SetBeginChunkOneItem(l, s, c) ==
  LET n == Len(l.items)
      first == c * CHUNK_SIZE + 1
  IN  [log |-> <<ProgressEvent(s, l.commandId, "set_multiple_text_contents", "in_progress",
                               ChunkProgress(c, NumChunks(n)), n,
                               l.successCount + l.failureCount)>>,
       loc |-> [l EXCEPT !.chunkIndex = c,
                         !.itemPc[first] = SetItemStart(l.items[first]).pc,
                         !.itemRes[first] = SetItemStart(l.items[first]).res]]

SetBeginChunk(l, s, c) ==
  LET n == Len(l.items)
  IN  [log |-> <<ProgressEvent(s, l.commandId, "set_multiple_text_contents", "in_progress",
                               ChunkProgress(c, NumChunks(n)), n,
                               l.successCount + l.failureCount)>>,
       loc |-> [l EXCEPT !.chunkIndex = c,
                         !.itemPc = [k \in 1..n |-> IF k \in ChunkItems(n, c)
                                                    THEN SetItemStart(l.items[k]).pc
                                                    ELSE l.itemPc[k]],
                         !.itemRes = [k \in 1..n |-> IF k \in ChunkItems(n, c)
                                                     THEN SetItemStart(l.items[k]).res
                                                     ELSE l.itemRes[k]]]]

SetReturn(l) ==
  [kind |-> "set_text", success |-> l.successCount > 0,
   succeeded |-> l.successCount, failed |-> l.failureCount,
   total |-> Len(l.items), results |-> l.results, commandId |-> l.commandId]

SetFinish(l, s) ==
  LET n == Len(l.items)
  IN  [log |-> <<ProgressEvent(s, l.commandId, "set_multiple_text_contents", "completed",
                               100, n, l.successCount + l.failureCount)>>,
       loc |-> [l EXCEPT !.ret = SetReturn(l)]]

\* the body of setMultipleTextContents once commandId is known (1855-1963)
SetEnter(s, params, id) ==
  LET l0 == [InitLoc EXCEPT !.commandId = id]
      bad == params.nodeId = 0 \/ params.text.kind # "list"
  IN  IF bad
      THEN /\ posted' = Post(posted, <<ProgressEvent(s, id, "set_multiple_text_contents",
                                                     "error", 0, 0, 0)>>)
           /\ loc' = [loc EXCEPT ![s] = l0]
           /\ pc' = [pc EXCEPT ![s] = "rejected"]
      ELSE LET n == Len(params.text.list)
               l1 == [l0 EXCEPT !.items = params.text.list,
                                !.itemPc = [k \in 1..n |-> "new"],
                                !.itemRes = [k \in 1..n |-> NoResult],
                                !.itemFills = [k \in 1..n |-> "undefined"]]
               head == <<ProgressEvent(s, id, "set_multiple_text_contents", "started", 0, n, 0),
                         ProgressEvent(s, id, "set_multiple_text_contents", "in_progress", 5, n, 0)>>
           IN  IF n = 0
               THEN LET f == SetFinish(l1, s)
                    IN  /\ posted' = Post(posted, head \o f.log)
                        /\ loc' = [loc EXCEPT ![s] = f.loc]
                        /\ pc' = [pc EXCEPT ![s] = "returned"]
               ELSE LET b == SetBeginChunk(l1, s, 0)
                    IN  /\ posted' = Post(posted, head \o b.log)
                        /\ loc' = [loc EXCEPT ![s] = b.loc]
                        /\ pc' = [pc EXCEPT ![s] = "set_chunk"]

\* entry of setMultipleTextContents up to its first suspension; line 1853
\* reads params.commandId before anything is checked
SetMultipleTextContents(s, params) ==
  /\ IF ~params.present
     THEN /\ pc' = [pc EXCEPT ![s] = "rejected"]
          /\ UNCHANGED <<loc, posted, genCalls>>
     ELSE IF params.commandId # NoId
     THEN /\ SetEnter(s, params, params.commandId)
          /\ UNCHANGED genCalls
     ELSE \E id \in GenIds : GenerateCommandId(s, id) /\ SetEnter(s, params, id)
  /\ UNCHANGED doc

\* JSON.parse(JSON.stringify(node.fills)): figma.mixed has no JSON form
CloneFills(fills) == IF fills = "mixed" THEN "throws" ELSE fills

\* one item's callback from one suspension to the next
SetItemStep(d, l, k) ==
  LET entry == l.items[k]
      node == GetNodeById(d, entry.nodeId)
      at == l.itemPc[k]
      stop(res) == [doc |-> d, loc |-> [l EXCEPT !.itemPc[k] = "done", !.itemRes[k] = res]]
      goto(p) == [doc |-> d, loc |-> [l EXCEPT !.itemPc[k] = p]]
  IN  CASE at = "lookup" ->
             \* 1963-2014: checks, highlight, call of setTextContent
             IF node = 0 THEN stop(Fail(entry.nodeId, "not_found"))
             ELSE IF NodeType(node) # "TEXT" THEN stop(Fail(entry.nodeId, "not_text"))
             ELSE IF CloneFills(d[node].fills) = "throws"
             THEN goto("stc_lookup")
             ELSE [doc |-> [d EXCEPT ![node].fills = "orange"],
                   loc |-> [l EXCEPT !.itemPc[k] = "stc_lookup",
                                     !.itemFills[k] = CloneFills(d[node].fills)]]
        [] at = "stc_lookup" ->
             \* setTextContent 1134-1144
             IF node = 0 THEN stop(Fail(entry.nodeId, "apply_error"))
             ELSE goto("font")
        [] at = "font" ->
             \* setTextContent 1144-1146, setCharacters 1200-1229
             IF node # 0 /\ d[node].font = "missing"
             THEN stop(Fail(entry.nodeId, "apply_error"))
             ELSE goto("chars")
        [] at = "chars" ->
             \* setCharacters 1242-1248, then 2017-2020 or 2030
             LET d2 == IF node = 0 THEN d ELSE [d EXCEPT ![node].characters = "new"]
             IN  IF l.itemFills[k] # "undefined"
                 THEN [doc |-> d2, loc |-> [l EXCEPT !.itemPc[k] = "hold"]]
                 ELSE [doc |-> d2, loc |-> [l EXCEPT !.itemPc[k] = "done",
                                                     !.itemRes[k] = Succeed(entry.nodeId)]]
        [] at = "hold" ->
             \* 2021-2035: the fills return, the item succeeds
             [doc |-> IF node = 0 THEN d ELSE [d EXCEPT ![node].fills = l.itemFills[k]],
              loc |-> [l EXCEPT !.itemPc[k] = "done", !.itemRes[k] = Succeed(entry.nodeId)]]

SetItem(s, k) ==
  /\ pc[s] = "set_chunk"
  /\ k \in 1..Len(loc[s].items)
  /\ loc[s].itemPc[k] \in {"lookup", "stc_lookup", "font", "chars", "hold"}
  /\ LET o == SetItemStep(doc, loc[s], k)
     IN  /\ doc' = o.doc
         /\ loc' = [loc EXCEPT ![s] = o.loc]
  /\ UNCHANGED <<selection, pc, req, posted, genCalls>>

\* Promise.all of the chunk has resolved (2049-2085, 2088-2119)
SetChunkDone(s) ==
  /\ pc[s] = "set_chunk"
  /\ LET l == loc[s]
         n == Len(l.items)
         c == l.chunkIndex
         ks == ChunkItems(n, c)
     IN  /\ \A k \in ks : l.itemPc[k] = "done"
         /\ LET l2 == Tally(l, ks, c * CHUNK_SIZE + 1)
                after == ProgressEvent(s, l.commandId, "set_multiple_text_contents",
                                       "in_progress", ChunkProgress(c + 1, NumChunks(n)), n,
                                       l2.successCount + l2.failureCount)
            IN  IF c < NumChunks(n) - 1
                THEN /\ posted' = Post(posted, <<after>>)
                     /\ loc' = [loc EXCEPT ![s] = l2]
                     /\ pc' = [pc EXCEPT ![s] = "set_delay"]
                ELSE LET f == SetFinish(l2, s)
                     IN  /\ posted' = Post(posted, <<after>> \o f.log)
                         /\ loc' = [loc EXCEPT ![s] = f.loc]
                         /\ pc' = [pc EXCEPT ![s] = "returned"]
  /\ UNCHANGED <<doc, selection, req, genCalls>>

\* the delay(1000) between chunks has passed
SetNextChunk(s) ==
  /\ pc[s] = "set_delay"
  /\ LET b == SetBeginChunk(loc[s], s, loc[s].chunkIndex + 1)
     IN  /\ posted' = Post(posted, b.log)
         /\ loc' = [loc EXCEPT ![s] = b.loc]
  /\ pc' = [pc EXCEPT ![s] = "set_chunk"]
  /\ UNCHANGED <<doc, selection, req, genCalls>>

----------------------------------------------------------------------------
(* Tree walks *)

\* collectNodesToProcess (1676-1701): the visible nodes below and including
\* n, in pre-order; a hidden node hides its subtree
RECURSIVE PreOrder(_, _)
RECURSIVE PreOrderAll(_, _, _)
PreOrder(d, n) ==
  IF ~d[n].visible THEN <<>>
  ELSE <<n>> \o PreOrderAll(d, Children(n), 1)
PreOrderAll(d, kids, k) ==
  IF k > Len(kids) THEN <<>>
  ELSE PreOrder(d, kids[k]) \o PreOrderAll(d, kids, k + 1)

\* Array.prototype.slice(a, b) on a sequence, indices from 0
JsIndex(len, x) == IF x < 0 THEN Max(len + x, 0) ELSE Min(x, len)
JsSlice(seq, a, b) ==
  LET from == JsIndex(Len(seq), a)
      to == JsIndex(Len(seq), b)
  IN  IF to <= from THEN <<>> ELSE SubSeq(seq, from + 1, to)

----------------------------------------------------------------------------
(* scan_text_nodes, code.js 1439-1673, processTextNode 1704-1765,            *)
(* findTextNodes 1773-1848                                                   *)

\* chunkSize = 10 when the caller passes none (1444)
DefaultChunkSize == 10

ChunkSizes == {-1, 0} \cup 1..MaxChunkSize \cup {DefaultChunkSize}

ScanParams ==
  {NoParams}
  \cup {[present |-> TRUE, nodeId |-> nid, useChunking |-> FALSE, chunkSize |-> DefaultChunkSize,
         commandId |-> cid] : nid \in {1, 3, MissingId}, cid \in {NoId, CallerId}}
  \cup {[present |-> TRUE, nodeId |-> nid, useChunking |-> TRUE, chunkSize |-> cs,
         commandId |-> cid] : nid \in {1, 3, MissingId}, cs \in ChunkSizes, cid \in {NoId, CallerId}}

\* a counter of a loop that does not end stops growing at MaxIter; of
\* chunksProcessed the parity is kept besides, so that the turns of such a
\* loop remain distinct states
Saturate(x) == IF x > MaxIter THEN MaxIter ELSE IF x < 0 - MaxIter THEN 0 - MaxIter ELSE x

\* Math.round(5 + (chunksProcessed / totalChunks) * 90), totalChunks being
\* Math.ceil(totalNodes / chunkSize), Infinity when chunkSize is 0
ScanProgress(chunksProcessed, totalNodes, chunkSize) ==
  IF chunkSize = 0 THEN 5
  ELSE ChunkProgress(chunksProcessed, CeilDiv(totalNodes, chunkSize))

ScanReturn(l, textNodes) ==
  [kind |-> "scan", success |-> TRUE, count |-> Len(textNodes),
   textNodes |-> textNodes, commandId |-> l.commandId]

\* entry of scanTextNodes up to await getNodeByIdAsync; line 1440 reads
\* params.nodeId before params || {} is applied
ScanTextNodes(s, params) ==
  /\ IF ~params.present
     THEN /\ pc' = [pc EXCEPT ![s] = "rejected"]
          /\ UNCHANGED <<loc, genCalls>>
     ELSE /\ pc' = [pc EXCEPT ![s] = "scan_lookup"]
          /\ IF params.commandId # NoId
             THEN /\ loc' = [loc EXCEPT ![s] = [InitLoc EXCEPT !.commandId = params.commandId]]
                  /\ UNCHANGED genCalls
             ELSE \E id \in GenIds :
                    /\ GenerateCommandId(s, id)
                    /\ loc' = [loc EXCEPT ![s] = [InitLoc EXCEPT !.commandId = id]]
  /\ UNCHANGED <<doc, posted>>

\* where the walk of findTextNodes stops next: at the first text node from
\* position k on whose highlight is followed by await delay(500); the text
\* nodes passed on the way (their fills cannot be copied) are collected
RECURSIVE FindRun(_, _, _, _)
FindRun(d, nodes, k, found) ==
  IF k > Len(nodes) THEN [k |-> k, found |-> found]
  ELSE IF NodeType(nodes[k]) # "TEXT" THEN FindRun(d, nodes, k + 1, found)
  ELSE IF CloneFills(d[nodes[k]].fills) = "throws"
  THEN FindRun(d, nodes, k + 1, Append(found, nodes[k]))
  ELSE [k |-> k, found |-> found]

\* findTextNodes runs on from position k of the walk
FindContinue(s, l, k, found, log) ==
  LET r == FindRun(doc, l.nodesToProcess, k, found)
      id == l.commandId
  IN  IF r.k > Len(l.nodesToProcess)
      THEN /\ posted' = Post(posted, log \o
                  <<ProgressEvent(s, id, "scan_text_nodes", "completed", 100,
                                  Len(r.found), Len(r.found))>>)
           /\ loc' = [loc EXCEPT ![s] = [l EXCEPT !.allTextNodes = r.found, !.k = r.k,
                                                   !.ret = ScanReturn(l, r.found)]]
           /\ pc' = [pc EXCEPT ![s] = "returned"]
           /\ doc' = doc
      ELSE LET n == l.nodesToProcess[r.k]
           IN  /\ posted' = Post(posted, log)
               /\ loc' = [loc EXCEPT ![s] = [l EXCEPT !.allTextNodes = r.found, !.k = r.k,
                                                       !.originalFills = CloneFills(doc[n].fills)]]
               /\ doc' = [doc EXCEPT ![n].fills = "orange"]
               /\ pc' = [pc EXCEPT ![s] = "find_hold"]

\* the delay(500) of findTextNodes has passed: fills back, node collected
FindResume(s) ==
  /\ pc[s] = "find_hold"
  /\ LET l == loc[s]
         n == l.nodesToProcess[l.k]
         d2 == [doc EXCEPT ![n].fills = l.originalFills]
         r == FindRun(d2, l.nodesToProcess, l.k + 1, Append(l.allTextNodes, n))
         id == l.commandId
     IN  IF r.k > Len(l.nodesToProcess)
         THEN /\ posted' = Post(posted,
                     <<ProgressEvent(s, id, "scan_text_nodes", "completed", 100,
                                     Len(r.found), Len(r.found))>>)
              /\ loc' = [loc EXCEPT ![s] = [l EXCEPT !.allTextNodes = r.found, !.k = r.k,
                                                      !.ret = ScanReturn(l, r.found)]]
              /\ pc' = [pc EXCEPT ![s] = "returned"]
              /\ doc' = d2
         ELSE LET m == l.nodesToProcess[r.k]
              IN  /\ posted' = posted
                  /\ loc' = [loc EXCEPT ![s] = [l EXCEPT !.allTextNodes = r.found, !.k = r.k,
                                                          !.originalFills = CloneFills(d2[m].fills)]]
                  /\ doc' = [d2 EXCEPT ![m].fills = "orange"]
                  /\ pc' = [pc EXCEPT ![s] = "find_hold"]
  /\ UNCHANGED <<selection, req, genCalls>>

\* one node of the chunk begins (1598-1616): a text node whose fills can be
\* copied is highlighted and waits delay(100); any other node goes straight
\* to its delay(5)
ScanBeginNode(d, l) ==
  LET n == l.chunkNodes[l.k]
  IN  IF NodeType(n) = "TEXT"
      THEN IF CloneFills(d[n].fills) = "throws"
           THEN [doc |-> d, pc |-> "scan_gap",
                 loc |-> [l EXCEPT !.chunkTextNodes = Append(@, n)]]
           ELSE [doc |-> [d EXCEPT ![n].fills = "orange"], pc |-> "scan_hold",
                 loc |-> [l EXCEPT !.originalFills = CloneFills(d[n].fills)]]
      ELSE [doc |-> d, pc |-> "scan_gap", loc |-> l]

\* the for loop from its test on (1570-1672), i being already advanced:
\* either the whole scan ends, or a chunk begins and runs to its first wait
ScanLoop(s, l, log) ==
  LET total == Len(l.nodesToProcess)
      cs == req[s].params.chunkSize
      id == l.commandId
  IN  IF ~(l.i < total)
      THEN /\ posted' = Post(posted, log \o
                  <<ProgressEvent(s, id, "scan_text_nodes", "completed", 100,
                                  total, l.processedNodes)>>)
           /\ loc' = [loc EXCEPT ![s] = [l EXCEPT !.ret = ScanReturn(l, l.allTextNodes)]]
           /\ pc' = [pc EXCEPT ![s] = "returned"]
           /\ doc' = doc
      ELSE LET chunkEnd == Min(l.i + cs, total)
               before == ProgressEvent(s, id, "scan_text_nodes", "in_progress",
                                       ScanProgress(l.chunksProcessed, total, cs),
                                       total, l.processedNodes)
               chunk == JsSlice(l.nodesToProcess, l.i, chunkEnd)
               l1 == [l EXCEPT !.chunkNodes = chunk, !.chunkTextNodes = <<>>, !.k = 1]
           IN  IF chunk = <<>>
               THEN \* nothing to await in the chunk: on to the event after it
                    LET l2 == [l1 EXCEPT !.chunksProcessed = Saturate(@ + 1), !.lap = 1 - @]
                        after == ProgressEvent(s, id, "scan_text_nodes", "in_progress",
                                               ScanProgress(l2.chunksProcessed, total, cs),
                                               total, l2.processedNodes)
                    IN  /\ posted' = Post(posted, log \o <<before, after>>)
                        /\ loc' = [loc EXCEPT ![s] = l2]
                        /\ pc' = [pc EXCEPT ![s] = "scan_delay"]
                        /\ doc' = doc
               ELSE LET b == ScanBeginNode(doc, l1)
                    IN  /\ posted' = Post(posted, log \o <<before>>)
                        /\ loc' = [loc EXCEPT ![s] = b.loc]
                        /\ pc' = [pc EXCEPT ![s] = b.pc]
                        /\ doc' = b.doc

\* await getNodeByIdAsync(nodeId) of scanTextNodes has resolved (1448-1570)
ScanLookup(s) ==
  /\ pc[s] = "scan_lookup"
  /\ LET l == loc[s]
         p == req[s].params
         id == l.commandId
         node == GetNodeById(doc, p.nodeId)
     IN  IF node = 0
         THEN /\ posted' = Post(posted, <<ProgressEvent(s, id, "scan_text_nodes", "error", 0, 0, 0)>>)
              /\ pc' = [pc EXCEPT ![s] = "rejected"]
              /\ UNCHANGED <<doc, loc>>
         ELSE LET nodes == PreOrder(doc, node)
                  l1 == [l EXCEPT !.nodesToProcess = nodes]
              IN  IF ~p.useChunking
                  THEN FindContinue(s, l1, 1, <<>>,
                         <<ProgressEvent(s, id, "scan_text_nodes", "started", 0, 1, 0)>>)
                  ELSE ScanLoop(s, l1,
                         <<ProgressEvent(s, id, "scan_text_nodes", "started", 0, 0, 0),
                           ProgressEvent(s, id, "scan_text_nodes", "in_progress", 5,
                                         Len(nodes), 0)>>)
  /\ UNCHANGED <<selection, req, genCalls>>

\* the delay(100) of processTextNode has passed: fills back, node collected,
\* then the delay(5) after the node
ScanHoldDone(s) ==
  /\ pc[s] = "scan_hold"
  /\ LET l == loc[s]
         n == l.chunkNodes[l.k]
     IN  /\ doc' = [doc EXCEPT ![n].fills = l.originalFills]
         /\ loc' = [loc EXCEPT ![s].chunkTextNodes = Append(@, n)]
  /\ pc' = [pc EXCEPT ![s] = "scan_gap"]
  /\ UNCHANGED <<selection, req, posted, genCalls>>

\* the delay(5) after a node has passed: the next node of the chunk, or the
\* end of the chunk (1619-1645)
ScanGapDone(s) ==
  /\ pc[s] = "scan_gap"
  /\ LET l == loc[s]
         total == Len(l.nodesToProcess)
         cs == req[s].params.chunkSize
     IN  IF l.k < Len(l.chunkNodes)
         THEN LET b == ScanBeginNode(doc, [l EXCEPT !.k = @ + 1])
              IN  /\ doc' = b.doc
                  /\ loc' = [loc EXCEPT ![s] = b.loc]
                  /\ pc' = [pc EXCEPT ![s] = b.pc]
                  /\ posted' = posted
         ELSE LET l2 == [l EXCEPT !.allTextNodes = @ \o l.chunkTextNodes,
                                  !.processedNodes = @ + Len(l.chunkNodes),
                                  !.chunksProcessed = Saturate(@ + 1), !.lap = 1 - @]
                  after == ProgressEvent(s, l.commandId, "scan_text_nodes", "in_progress",
                                         ScanProgress(l2.chunksProcessed, total, cs),
                                         total, l2.processedNodes)
              IN  IF l.i + cs < total
                  THEN /\ posted' = Post(posted, <<after>>)
                       /\ loc' = [loc EXCEPT ![s] = l2]
                       /\ pc' = [pc EXCEPT ![s] = "scan_delay"]
                       /\ doc' = doc
                  ELSE ScanLoop(s, [l2 EXCEPT !.i = Saturate(@ + cs)], <<after>>)
  /\ UNCHANGED <<selection, req, genCalls>>

\* the delay(50) between chunks has passed: i += chunkSize and the loop test
ScanNextChunk(s) ==
  /\ pc[s] = "scan_delay"
  /\ ScanLoop(s, [loc[s] EXCEPT !.i = Saturate(@ + req[s].params.chunkSize)], <<>>)
  /\ UNCHANGED <<selection, req, genCalls>>

----------------------------------------------------------------------------
(* scan_nodes_by_types, code.js 2318-2407 *)

TypeLists == {<<>>, <<"TEXT">>, <<"FRAME", "RECTANGLE">>}

ScanByTypesParams ==
  {NoParams}
  \cup {[present |-> TRUE, nodeId |-> nid, types |-> ts] :
          nid \in {1, 3, MissingId}, ts \in TypeLists}

InSeq(x, seq) == \E k \in 1..Len(seq) : seq[k] = x

\* findNodesByTypes: the visible nodes of the subtree whose type is asked for
FindNodesByTypes(d, n, types) ==
  SelectSeq(PreOrder(d, n), LAMBDA m : InSeq(NodeType(m), types))

\* entry of scanNodesByTypes up to await getNodeByIdAsync; line 2319 reads
\* params.nodeId before params || {} is applied
ScanNodesByTypes(s, params) ==
  /\ IF ~params.present \/ Len(params.types) = 0
     THEN pc' = [pc EXCEPT ![s] = "rejected"]
     ELSE pc' = [pc EXCEPT ![s] = "sbt_lookup"]
  /\ loc' = [loc EXCEPT ![s] = InitLoc]
  /\ UNCHANGED <<doc, posted, genCalls>>

\* await getNodeByIdAsync(nodeId) of scanNodesByTypes has resolved
SbtLookup(s) ==
  /\ pc[s] = "sbt_lookup"
  /\ LET p == req[s].params
         node == GetNodeById(doc, p.nodeId)
     IN  IF node = 0
         THEN /\ pc' = [pc EXCEPT ![s] = "rejected"]
              /\ UNCHANGED <<loc, posted, genCalls>>
         ELSE \E id \in GenIds :
                LET matchingNodes == FindNodesByTypes(doc, node, p.types)
                    n == Len(matchingNodes)
                IN  /\ GenerateCommandId(s, id)
                    /\ posted' = Post(posted,
                         <<ProgressEvent(s, id, "scan_nodes_by_types", "started", 0, 1, 0),
                           ProgressEvent(s, id, "scan_nodes_by_types", "completed", 100, n, n)>>)
                    /\ loc' = [loc EXCEPT ![s].ret =
                                 [kind |-> "scan_by_types", success |-> TRUE, count |-> n,
                                  matchingNodes |-> matchingNodes, searchedTypes |-> p.types]]
                    /\ pc' = [pc EXCEPT ![s] = "returned"]
  /\ UNCHANGED <<doc, selection, req>>

----------------------------------------------------------------------------
(* The QA rules, code.js 3214-4083 *)

\* the ids of the qaRules catalog, in its order (3034-3131)
QARules ==
  <<"consistent_page_margins", "typographic_hierarchy", "imagery_edge_to_edge",
    "bottom_os_bar", "vertical_spacing_cards", "vertical_spacing_header",
    "vertical_spacing_sections", "vertical_spacing_inputs", "color_contrast_text",
    "color_contrast_ui", "ui_language", "too_many_buttons", "button_bar_shadow",
    "corner_radius", "card_shadow", "typeface">>

RuleIds == {QARules[k] : k \in 1..Len(QARules)}

\* the keywords the validators look for in the lower-cased name of a layer
NameWords(name) ==
  CASE name = "Card" -> {"card"}
    [] name = "Photo" -> {"photo"}
    [] name = "Button" -> {"button"}
    [] name = "Icon Button" -> {"icon", "button"}
    [] name = "card" -> {"card"}
    [] name = "Background" -> {"background"}
    [] OTHER -> {}

\* fills.find(f => f.type === 'SOLID' && f.visible !== false).color, guarded
\* by fills && fills.length > 0: the colour, or "" when there is none
SolidColor(fills) == IF fills \in {"none", "mixed"} THEN "" ELSE fills

\* 10000 * calculateLuminance(color) (4097-4105): black, white and the
\* { r: 1, g: 0.5, b: 0 } of the highlight of the text commands
Luminance(color) ==
  CASE color = "white" -> 10000
    [] color = "orange" -> 3657
    [] color = "qa_highlight" -> 3657
    [] OTHER -> 0

\* 100 * calculateContrastRatio(color1, color2) (4084-4094)
CalculateContrastRatio(color1, color2) ==
  LET lighter == Max(Luminance(color1), Luminance(color2))
      darker == Min(Luminance(color1), Luminance(color2))
  IN  RoundDiv(100 * (lighter + 500), darker + 500)

ContrastOnWhite(fills) == CalculateContrastRatio(fills, "white")

\* the body of the loop over the parents (3590-3599, 3697-3706): the solid
\* fill of the nearest ancestor that has one, "" when the chain ends at the
\* page
RECURSIVE AncestorFill(_, _)
AncestorFill(d, p) ==
  IF p = 0 THEN ""
  ELSE IF SolidColor(d[p].fills) # "" THEN SolidColor(d[p].fills)
  ELSE AncestorFill(d, Parent(p))

\* let backgroundColor = { r: 1, g: 1, b: 1 }; while (parent &&
\* !backgroundColor) { ... } (3586-3600, 3693-3707): the loop is entered only
\* while backgroundColor is falsy
BackgroundColor(d, n) ==
  LET initial == "white"
      fromParents == AncestorFill(d, Parent(n))
  IN  IF initial # "" THEN initial ELSE fromParents

NoReason == [text |-> "", count |-> 0, message |-> ""]
Passed == [passed |-> TRUE, reason |-> NoReason, details |-> <<>>]
Failed(text, details) ==
  [passed |-> FALSE, reason |-> [text |-> text, count |-> Len(details), message |-> ""],
   details |-> details]
\* { passed: false, reason: `Error checking rule: ${error.message}` }
RuleError(message) ==
  [passed |-> FALSE,
   reason |-> [text |-> "Error checking rule: ", count |-> 0, message |-> message],
   details |-> <<>>]
Thrown(message) == [thrown |-> TRUE, message |-> message]

\* the fields every violation entry starts with: element, and nodeId where
\* the validator stores node.id
Violation(d, n, withId) ==
  IF withId THEN [element |-> d[n].name, nodeId |-> n] ELSE [element |-> d[n].name]

\* the nodes of the subtree reached by a walk that descends everywhere
RECURSIVE Walk(_, _)
RECURSIVE WalkAll(_, _, _)
Walk(d, n) == IF ~d[n].exists THEN <<>> ELSE <<n>> \o WalkAll(d, Children(n), 1)
WalkAll(d, kids, k) ==
  IF k > Len(kids) THEN <<>> ELSE Walk(d, kids[k]) \o WalkAll(d, kids, k + 1)

LiveChildren(d, n) == SelectSeq(Children(n), LAMBDA m : d[m].exists)

\* one violation entry per node of seq
Violations(d, seq, withId) == [k \in 1..Len(seq) |-> Violation(d, seq[k], withId)]

MarginViolation(d, c, position, actual, required) ==
  [element |-> d[c].name, position |-> position, actual |-> actual, required |-> required]

\* the pass of the loop with the check of the left margin alone
ChildMarginsLeftOnly(d, frame, c, requiredMargin) ==
  IF NameWords(d[c].name) \cap {"background", "status", "statusbar"} # {} THEN <<>>
  ELSE IF d[c].x < requiredMargin /\ d[c].x > 0
  THEN <<MarginViolation(d, c, "left", d[c].x, requiredMargin)>> ELSE <<>>

\* one pass of the loop over frame.children (3311-3342): the left margin,
\* then the right margin of the child
ChildMargins(d, frame, c, requiredMargin) ==
  LET rightMargin == d[frame].width - (d[c].x + d[c].width)
  IN  IF NameWords(d[c].name) \cap {"background", "status", "statusbar"} # {} THEN <<>>
      ELSE (IF d[c].x < requiredMargin /\ d[c].x > 0
            THEN <<MarginViolation(d, c, "left", d[c].x, requiredMargin)>> ELSE <<>>)
           \o (IF rightMargin < requiredMargin /\ rightMargin > 0
               THEN <<MarginViolation(d, c, "right", rightMargin, requiredMargin)>>
               ELSE <<>>)

RECURSIVE MarginsFrom(_, _, _, _, _)
MarginsFrom(d, frame, kids, k, requiredMargin) ==
  IF k > Len(kids) THEN <<>>
  ELSE ChildMargins(d, frame, kids[k], requiredMargin)
       \o MarginsFrom(d, frame, kids, k + 1, requiredMargin)

\* validatePageMargins (3303-3356)
ValidatePageMargins(d, frame) ==
  LET requiredMargin == IF d[frame].width <= 420 THEN 16 ELSE 24
      violations == MarginsFrom(d, frame, LiveChildren(d, frame), 1, requiredMargin)
  IN  IF violations = <<>> THEN Passed
      ELSE Failed("elements that violate the margin requirement", violations)

\* the text nodes collectTextNodes finds (it does not look at visible)
TextNodesOf(d, frame) == SelectSeq(Walk(d, frame), LAMBDA m : NodeType(m) = "TEXT")

\* validateTypographicHierarchy (3358-3399)
ValidateTypographicHierarchy(d, frame) ==
  LET texts == TextNodesOf(d, frame)
      styles == {<<d[texts[k]].family, FontSize(texts[k])>> : k \in 1..Len(texts)}
  IN  IF Cardinality(styles) < 5 THEN Passed
      ELSE Failed("typographic styles, which exceeds the maximum of 5", <<>>)

\* validateImageryEdgeToEdge (3401-3445): isImageNode iterates node.fills,
\* which figma.mixed does not allow; no layer of the page has an image fill
ValidateImageryEdgeToEdge(d, frame) ==
  IF \E m \in Subtree(frame) : d[m].exists /\ d[m].fills = "mixed"
  THEN Thrown("node.fills is not iterable")
  ELSE Failed("No images found that extend to the top of the screen", <<>>)

\* the rules whose validator is a placeholder (3447-3453, 3512-3542,
\* 3741-3763)
PlaceholderRules ==
  {"bottom_os_bar", "vertical_spacing_cards", "vertical_spacing_header",
   "vertical_spacing_sections", "vertical_spacing_inputs", "ui_language",
   "too_many_buttons", "button_bar_shadow"}

ContrastViolation(d, n, required) ==
  [element |-> d[n].name, nodeId |-> n,
   contrastRatio |-> CalculateContrastRatio(SolidColor(d[n].fills), BackgroundColor(d, n)),
   color |-> SolidColor(d[n].fills), backgroundColor |-> BackgroundColor(d, n),
   required |-> required]

\* the nodes of seq a contrast rule flags: those with a solid colour whose
\* ratio against the background is under required (3568-3613, 3672-3718)
LowContrast(d, seq, required) ==
  SelectSeq(seq, LAMBDA m :
     /\ SolidColor(d[m].fills) # ""
     /\ CalculateContrastRatio(SolidColor(d[m].fills), BackgroundColor(d, m)) < required)

\* validateColorContrastText (3544-3632): visible text with content and a
\* solid fill; required ratio 4.5
ValidateColorContrastText(d, frame) ==
  LET checked == SelectSeq(TextNodesOf(d, frame),
                   LAMBDA t : d[t].visible /\ d[t].characters # "")
      low == LowContrast(d, checked, 450)
  IN  IF low = <<>> THEN Passed
      ELSE Failed("text elements with insufficient contrast",
                  [k \in 1..Len(low) |-> ContrastViolation(d, low[k], 450)])

UIWords == {"button", "icon", "control", "input", "checkbox", "radio"}

\* validateColorContrastUI (3634-3739): no layer of the page has strokes;
\* required ratio 3
ValidateColorContrastUI(d, frame) ==
  LET uiNodes == SelectSeq(Walk(d, frame), LAMBDA m : NameWords(d[m].name) \cap UIWords # {})
      checked == SelectSeq(uiNodes, LAMBDA m : d[m].visible)
      low == LowContrast(d, checked, 300)
  IN  IF low = <<>> THEN Passed
      ELSE Failed("UI elements with insufficient contrast",
                  [k \in 1..Len(low) |-> ContrastViolation(d, low[k], 300)])

\* collectNodes of validateCornerRadius (3776-3829): the nodes it looks at,
\* hidden nodes and UI framework layers cutting the walk
RECURSIVE RadiusWalk(_, _)
RECURSIVE RadiusWalkAll(_, _, _)
RadiusWalk(d, n) ==
  IF ~d[n].exists \/ ~d[n].visible
     \/ NameWords(d[n].name) \cap {"action", "navigation", "button", "icon", "tab"} # {}
  THEN <<>>
  ELSE <<n>> \o RadiusWalkAll(d, Children(n), 1)
RadiusWalkAll(d, kids, k) ==
  IF k > Len(kids) THEN <<>> ELSE RadiusWalk(d, kids[k]) \o RadiusWalkAll(d, kids, k + 1)

IsCard(d, n) ==
  \/ NameWords(d[n].name) \cap {"card", "tile"} # {}
  \/ Parent(n) # 0 /\ "card" \in NameWords(d[Parent(n)].name)

IsImageByName(d, n) == NameWords(d[n].name) \cap {"image", "photo", "picture"} # {}

IsPotentialCardOrImage(d, n) ==
  /\ NodeType(n) = "RECTANGLE"
  /\ d[n].fills # "none"
  /\ NameWords(d[n].name) \cap {"background", "container", "wrapper", "box"} = {}
  /\ Parent(n) # 0 /\ NodeType(Parent(n)) = "FRAME"

EXPECTED_RADIUS == 6

\* the four corner radii are one value: node.cornerRadius is that number,
\* otherwise it is figma.mixed
AllSame(corners) == \A i, j \in 1..Len(corners) : corners[i] = corners[j]

\* the entry of a target node judged by its top-left radius alone
RadiusViolationTopLeftOnly(d, n) ==
  IF d[n].corners[1] # EXPECTED_RADIUS
  THEN <<[element |-> d[n].name, nodeId |-> n, actualRadius |-> d[n].corners[1],
          expected |-> EXPECTED_RADIUS]>>
  ELSE <<>>

\* the entry pushed for a target node (3851-3886), <<>> when nothing is
\* pushed
RadiusViolation(d, n) ==
  LET c == d[n].corners
  IN  IF ~AllSame(c)
      THEN <<[element |-> d[n].name, nodeId |-> n, issue |-> "Inconsistent corner radii",
              cornerRadii |-> c, expected |-> EXPECTED_RADIUS]>>
      ELSE IF c[1] # EXPECTED_RADIUS
      THEN <<[element |-> d[n].name, nodeId |-> n, actualRadius |-> c[1],
              expected |-> EXPECTED_RADIUS]>>
      ELSE <<>>

RECURSIVE RadiusViolations(_, _, _)
RadiusViolations(d, targets, k) ==
  IF k > Len(targets) THEN <<>>
  ELSE RadiusViolation(d, targets[k]) \o RadiusViolations(d, targets, k + 1)

\* the nodes collectNodes pushes into targetNodes (3795-3826)
TargetNodes(d, frame) ==
  SelectSeq(RadiusWalk(d, frame),
            LAMBDA m : (IsCard(d, m) \/ IsImageByName(d, m) \/ IsPotentialCardOrImage(d, m))
                       /\ d[m].corners # <<>>)

\* validateCornerRadius (3765-3907): node.fills.some is evaluated on every
\* visited node that is not an image by name, and on every rectangle
ValidateCornerRadius(d, frame) ==
  LET visited == RadiusWalk(d, frame)
      violations == RadiusViolations(d, TargetNodes(d, frame), 1)
  IN  IF \E k \in 1..Len(visited) :
            /\ d[visited[k]].fills = "mixed"
            /\ ~IsImageByName(d, visited[k]) \/ NodeType(visited[k]) = "RECTANGLE"
      THEN Thrown("node.fills.some is not a function")
      ELSE IF violations = <<>> THEN Passed
      ELSE Failed("elements with incorrect corner radius", violations)

\* validateTypeface (3909-3998)
ValidateTypeface(d, frame) ==
  LET checked == SelectSeq(TextNodesOf(d, frame),
                           LAMBDA t : d[t].visible /\ d[t].characters # "")
      wrong == SelectSeq(checked, LAMBDA t : d[t].family # "Brown")
  IN  IF wrong = <<>> THEN Passed
      ELSE Failed("text elements using incorrect typeface",
                  Violations(d, wrong, FALSE))

\* validateCardShadow (4000-4082)
ValidateCardShadow(d, frame) ==
  LET cardNodes == SelectSeq(Walk(d, frame),
                             LAMBDA m : NameWords(d[m].name) \cap {"card", "tile"} # {})
      bare == SelectSeq(cardNodes, LAMBDA m : d[m].visible /\ ~d[m].shadow)
  IN  IF bare = <<>> THEN Passed
      ELSE Failed("card elements missing drop shadows",
                  Violations(d, bare, FALSE))

\* the default branch of the switch taken for the placeholder rules
ValidationFunctionNoPlaceholders(d, frame, rule) ==
  CASE rule = "consistent_page_margins" -> ValidatePageMargins(d, frame)
    [] rule = "typographic_hierarchy" -> ValidateTypographicHierarchy(d, frame)
    [] rule = "imagery_edge_to_edge" -> ValidateImageryEdgeToEdge(d, frame)
    [] rule = "color_contrast_text" -> ValidateColorContrastText(d, frame)
    [] rule = "color_contrast_ui" -> ValidateColorContrastUI(d, frame)
    [] rule = "corner_radius" -> ValidateCornerRadius(d, frame)
    [] rule = "card_shadow" -> ValidateCardShadow(d, frame)
    [] rule = "typeface" -> ValidateTypeface(d, frame)
    [] rule \in PlaceholderRules -> Failed("Unimplemented rule", <<>>)

\* the validation function validateRule picks for a rule id (3221-3275)
ValidationFunction(d, frame, rule) ==
  CASE rule = "consistent_page_margins" -> ValidatePageMargins(d, frame)
    [] rule = "typographic_hierarchy" -> ValidateTypographicHierarchy(d, frame)
    [] rule = "imagery_edge_to_edge" -> ValidateImageryEdgeToEdge(d, frame)
    [] rule = "color_contrast_text" -> ValidateColorContrastText(d, frame)
    [] rule = "color_contrast_ui" -> ValidateColorContrastUI(d, frame)
    [] rule = "corner_radius" -> ValidateCornerRadius(d, frame)
    [] rule = "card_shadow" -> ValidateCardShadow(d, frame)
    [] rule = "typeface" -> ValidateTypeface(d, frame)
    [] rule \in PlaceholderRules -> Passed

\* a rule whose validator throws is taken as passed
RuleResultLenient(d, frame, rule) ==
  LET r == ValidationFunction(d, frame, rule)
  IN  IF "thrown" \in DOMAIN r THEN Passed ELSE r

\* what goes into results[frame.id].rules[rule.id] (3158-3169): the value
\* await validateRule(...) gives, or the failed result made of its rejection
RuleResult(d, frame, rule) ==
  LET r == ValidationFunction(d, frame, rule)
  IN  IF "thrown" \in DOMAIN r THEN RuleError(r.message) ELSE r

----------------------------------------------------------------------------
(* validate_qa_rules, code.js 2973-3211, and test_qa_validation, 4126-4150 *)

\* what the user has selected when a command that reads the selection arrives
Selections == {<<>>, <<2>>, <<1>>, <<3, 2, 1>>}

FrameIdLists == {<<>>, <<1>>, <<3, 1>>, <<2>>, <<MissingId, 3>>}

ValidateParams ==
  {NoParams}
  \cup {[present |-> TRUE, ignoreStatusBar |-> TRUE, frameIds |-> ids, useSelection |-> u] :
          ids \in FrameIdLists, u \in BOOLEAN}

FramesOnly(d, ids) ==
  SelectSeq(ids, LAMBDA n : GetNodeById(d, n) # 0 /\ NodeType(n) = "FRAME")

\* figma.currentPage.children
PageChildren(d) == SelectSeq(<<1>>, LAMBDA n : d[n].exists)

\* new Date().toLocaleString(): the second the wall clock shows, which never
\* runs backwards from one report to the next
Clock ==
  {t \in 1..MaxTime :
     \A r \in DOMAIN loc : loc[r].ret.kind = "qa" => t >= loc[r].ret.report.generatedOn}

\* the lines of the rule checklist for one rule (3476-3501): the issue and
\* at most three of the violations, for a rule that did not pass
ChecklistEntry(result) ==
  IF result.passed THEN [passed |-> TRUE]
  ELSE [passed |-> FALSE, issue |-> result.reason,
        found |-> Len(result.details),
        shown |-> SubSeq(result.details, 1, Min(3, Len(result.details))),
        more |-> Max(0, Len(result.details) - 3)]

\* generateQAReport (3455-3509): the timestamp, then per frame the rules
\* passed out of the catalog, the percentage and the rule checklist
GenerateQAReport(results, now) ==
  [generatedOn |-> now,
   frames |->
     [f \in DOMAIN results |->
        LET passedRules == Cardinality({r \in RuleIds : results[f][r].passed})
        IN  [passedRules |-> passedRules, totalRules |-> Len(QARules),
             percentage |-> RoundDiv(passedRules * 100, Len(QARules)),
             checklist |-> [k \in 1..Len(QARules) |-> ChecklistEntry(results[f][QARules[k]])]]]]

\* the error event sent under an id of its own
ValFailFreshId(s, l) ==
  /\ posted' = Post(posted, <<ProgressEvent(s, "cmd_err", "validate_qa_rules", "error", 0, 100, 0)>>)
  /\ pc' = [pc EXCEPT ![s] = "rejected"]
  /\ loc' = [loc EXCEPT ![s] = l]

\* the catch of validateQARules (3193-3210): one error event, then rethrow
ValFail(s, l) ==
  /\ posted' = Post(posted, <<ProgressEvent(s, l.commandId, "validate_qa_rules", "error", 0, 100, 0)>>)
  /\ pc' = [pc EXCEPT ![s] = "rejected"]
  /\ loc' = [loc EXCEPT ![s] = l]

\* validateQARules from the frames being known to its return (3018-3192)
ValFrames(s, l, frames) ==
  IF Len(frames) = 0 THEN ValFail(s, l)
  ELSE LET id == l.commandId
           n == Len(frames)
           perFrame == [i \in 1..n |->
                          ProgressEvent(s, id, "validate_qa_rules", "in_progress",
                                        10 + RoundDiv(80 * (i - 1), n), n, i - 1)]
           results == [f \in {frames[i] : i \in 1..n} |->
                         [r \in RuleIds |-> RuleResult(doc, f, r)]]
       IN  /\ posted' = Post(posted,
                  <<ProgressEvent(s, id, "validate_qa_rules", "in_progress", 10, 100, 10)>>
                  \o perFrame
                  \o <<ProgressEvent(s, id, "validate_qa_rules", "completed", 100, n, n)>>)
           /\ \E now \in Clock :
                loc' = [loc EXCEPT ![s] =
                          [l EXCEPT !.frames = frames,
                                    !.ret = [kind |-> "qa", success |-> TRUE,
                                             report |-> GenerateQAReport(results, now),
                                             results |-> results, commandId |-> id]]]
           /\ pc' = [pc EXCEPT ![s] = "returned"]

\* entry of validateQARules up to await figma.currentPage.loadAsync(); the
\* destructuring of params stands before the try
ValidateQARules(s, params) ==
  /\ IF ~params.present
     THEN /\ pc' = [pc EXCEPT ![s] = "rejected"]
          /\ loc' = [loc EXCEPT ![s] = InitLoc]
          /\ UNCHANGED <<posted, genCalls>>
     ELSE \E id \in GenIds :
            /\ GenerateCommandId(s, id)
            /\ loc' = [loc EXCEPT ![s] = [InitLoc EXCEPT !.commandId = id, !.vparams = params]]
            /\ posted' = Post(posted, <<ProgressEvent(s, id, "validate_qa_rules", "started", 0, 100, 0)>>)
            /\ pc' = [pc EXCEPT ![s] = "val_load"]
  /\ UNCHANGED doc

\* testQAValidation: the selection checked, then validateQARules
TestQAValidation(s) ==
  IF Len(FramesOnly(doc, selection')) = 0
  THEN /\ pc' = [pc EXCEPT ![s] = "rejected"]
       /\ loc' = [loc EXCEPT ![s] = InitLoc]
       /\ UNCHANGED <<doc, posted, genCalls>>
  ELSE ValidateQARules(s, [present |-> TRUE, ignoreStatusBar |-> TRUE,
                           frameIds |-> FramesOnly(doc, selection'), useSelection |-> TRUE])

\* await figma.currentPage.loadAsync() has resolved (2993-3016)
ValLoaded(s) ==
  /\ pc[s] = "val_load"
  /\ LET l == loc[s]
         p == l.vparams
     IN  IF p.useSelection
         THEN IF Len(selection) = 0 THEN ValFail(s, l)
              ELSE ValFrames(s, l, FramesOnly(doc, selection))
         ELSE IF Len(p.frameIds) > 0
         THEN /\ pc' = [pc EXCEPT ![s] = "val_ids"]
              /\ UNCHANGED <<loc, posted>>
         ELSE ValFrames(s, l, FramesOnly(doc, PageChildren(doc)))
  /\ UNCHANGED <<doc, selection, req, genCalls>>

\* await Promise.all(frameIds.map(getNodeByIdAsync)) has resolved (3011-3013)
ValIdsResolved(s) ==
  /\ pc[s] = "val_ids"
  /\ ValFrames(s, loc[s], FramesOnly(doc, loc[s].vparams.frameIds))
  /\ UNCHANGED <<doc, selection, req, genCalls>>

----------------------------------------------------------------------------
(* figma.ui.onmessage and handleCommand, code.js 56-189 *)

Requests ==
  {[command |-> "delete_multiple_nodes", params |-> p] : p \in DeleteParams}
  \cup {[command |-> "set_multiple_text_contents", params |-> p] : p \in SetTextParams}
  \cup {[command |-> "scan_text_nodes", params |-> p] : p \in ScanParams}
  \cup {[command |-> "scan_nodes_by_types", params |-> p] : p \in ScanByTypesParams}
  \cup {[command |-> "validate_qa_rules", params |-> p] : p \in ValidateParams}
  \cup {[command |-> "test_qa_validation", params |-> NoParams]}
  \cup {[command |-> "no_such_command", params |-> NoParams]}

\* handleCommand(msg.command, msg.params) up to the handler's first suspension
HandleCommand(s, r) ==
  CASE r.command = "delete_multiple_nodes" -> DeleteMultipleNodes(s, r.params)
    [] r.command = "set_multiple_text_contents" -> SetMultipleTextContents(s, r.params)
    [] r.command = "scan_text_nodes" -> ScanTextNodes(s, r.params)
    [] r.command = "scan_nodes_by_types" -> ScanNodesByTypes(s, r.params)
    [] r.command = "validate_qa_rules" -> ValidateQARules(s, r.params)
    [] r.command = "test_qa_validation" -> TestQAValidation(s)
    [] OTHER -> /\ pc' = [pc EXCEPT ![s] = "rejected"]
                /\ UNCHANGED <<doc, loc, posted, genCalls>>

ReadsSelection(r) ==
  \/ r.command = "test_qa_validation"
  \/ r.command = "validate_qa_rules" /\ r.params.present /\ r.params.useSelection

\* an execute-command message, one of requests, arrives
ReceiveFrom(s, requests) ==
  /\ pc[s] = "idle"
  /\ \E r \in requests :
       /\ req' = [req EXCEPT ![s] = r]
       /\ \E sel \in (IF ReadsSelection(r) THEN Selections ELSE {selection}) :
            selection' = sel
       /\ HandleCommand(s, r)

Receive(s) == ReceiveFrom(s, Requests)

\* await handleCommand(...) has settled: the one reply of the message
Reply(s) ==
  /\ pc[s] \in {"returned", "rejected"}
  /\ posted' = Post(posted, <<ReplyMsg(s, IF pc[s] = "returned" THEN "command-result"
                                        ELSE "command-error")>>)
  /\ pc' = [pc EXCEPT ![s] = "replied"]
  /\ UNCHANGED <<doc, selection, req, loc, genCalls>>

----------------------------------------------------------------------------

(* The pages the QA rules are checked on *)

Page == DocWith({}, "none")

\* frame 3 and its one child, text node 4: widths, position and name
GeometryDocs ==
  {[Page EXCEPT ![3].width = fw, ![4].x = x, ![4].width = w, ![4].name = nm] :
     fw \in {400, 500}, x \in {0, 10, 16}, w \in {100, 374, 380, 390},
     nm \in {"Label", "Background"}}

\* the fills of frame 1, frame 3, text node 4 and of rectangle 5, which is
\* named as a UI control
ColourDocs ==
  {[Page EXCEPT ![1].fills = f1, ![3].fills = f3, ![4].fills = f4,
                ![5].fills = f5, ![5].name = "Button"] :
     f1 \in {"solid", "white", "none"}, f3 \in {"solid", "white", "none"},
     f4 \in {"solid", "white", "orange"}, f5 \in {"solid", "white"}}

CornerChoices ==
  {Uniform(6), Uniform(0), Uniform(8), <<6, 6, 0, 0>>, <<0, 6, 6, 6>>, <<>>}

\* the corner radii of frame 3 (a card) and of rectangle 5 (a photo)
RadiusDocs ==
  {[Page EXCEPT ![3].corners = c3, ![5].corners = c5] :
     c3 \in CornerChoices, c5 \in CornerChoices}

\* the typeface of text node 2, the shadow of card 3, hidden layers
StyleDocs ==
  {[DocWith(h, "none") EXCEPT ![2].family = fam, ![3].shadow = sh] :
     fam \in {"Brown", "Brandon"}, sh \in BOOLEAN, h \in {{}, {4}}}

QADocs == GeometryDocs \cup ColourDocs \cup RadiusDocs \cup StyleDocs \cup InitDocs

Init ==
  /\ doc \in InitDocs
  /\ selection = <<>>
  /\ pc = [s \in Slots |-> "idle"]
  /\ req = [s \in Slots |-> [command |-> "", params |-> NoParams]]
  /\ loc = [s \in Slots |-> InitLoc]
  /\ posted = <<>>
  /\ genCalls = [s \in Slots |-> 0]

Next ==
  \E s \in Slots :
    \/ Receive(s)
    \/ \E k \in 1..MaxItems : DelItem(s, k)
    \/ DelChunkDone(s)
    \/ DelNextChunk(s)
    \/ \E k \in 1..MaxItems : SetItem(s, k)
    \/ SetChunkDone(s)
    \/ SetNextChunk(s)
    \/ ScanLookup(s)
    \/ FindResume(s)
    \/ ScanHoldDone(s)
    \/ ScanGapDone(s)
    \/ ScanNextChunk(s)
    \/ SbtLookup(s)
    \/ ValLoaded(s)
    \/ ValIdsResolved(s)
    \/ Reply(s)

Spec == Init /\ [][Next]_vars

\* scan_text_nodes alone, every timer and host promise it waits for settling:
\* delay() resolves after its time, getNodeByIdAsync resolves
ScanRequests == {r \in Requests : r.command = "scan_text_nodes"}

ReceiveScan(s) == ReceiveFrom(s, ScanRequests)

NextScan ==
  \E s \in Slots :
    \/ ReceiveScan(s)
    \/ ScanLookup(s)
    \/ FindResume(s)
    \/ ScanHoldDone(s)
    \/ ScanGapDone(s)
    \/ ScanNextChunk(s)
    \/ Reply(s)

FairScanSpec == Init /\ [][NextScan]_vars /\ WF_vars(NextScan)

----------------------------------------------------------------------------
(* What the event stream and the result of one message look like *)

Range(seq) == {seq[k] : k \in 1..Len(seq)}

\* the command_progress events posted while message s is served, in order
Events(s) == SelectSeq(posted, LAMBDA m : m.type = "command_progress" /\ m.id = s)

\* the replies to message s
Replies(s) == SelectSeq(posted, LAMBDA m : m.type \in {"command-result", "command-error"} /\ m.id = s)

\* the handler of message s has returned a value / has thrown
Returned(s) == pc[s] \in {"returned", "replied"} /\ loc[s].ret.kind # "none"
Rejected(s) == pc[s] = "rejected" \/ (pc[s] = "replied" /\ loc[s].ret.kind = "none")

IsDelete(s) == req[s].command = "delete_multiple_nodes"
IsSetText(s) == req[s].command = "set_multiple_text_contents"
IsScan(s) == req[s].command = "scan_text_nodes"
IsChunkedScan(s) == IsScan(s) /\ req[s].params.present /\ req[s].params.useChunking

\* N and K of the batch message s runs
BatchN(s) == IF IsScan(s) THEN Len(loc[s].nodesToProcess) ELSE Len(loc[s].items)
BatchK(s) == IF IsScan(s) THEN req[s].params.chunkSize ELSE CHUNK_SIZE
\* ceil(N / K), no chunk at all for an empty batch
BatchChunks(s) ==
  IF BatchN(s) = 0 THEN 0 ELSE (BatchN(s) + BatchK(s) - 1) \div BatchK(s)

\* started first, in_progress between, completed last, n events in all
StreamShape(e, n) ==
  /\ Len(e) = n
  /\ e[1].status = "started"
  /\ \A k \in 2..(n - 1) : e[k].status = "in_progress"
  /\ e[n].status = "completed"

----------------------------------------------------------------------------
(* C1 *)

\* C1: within the event stream of one command invocation, the progress value
\* of every command_progress event is greater than or equal to the progress
\* value of every earlier event with the same commandId, the terminal event
\* included.
C1_ProgressNeverDecreases ==
  \A s \in Slots :
    LET e == Events(s)
    IN  \A i, j \in 1..Len(e) :
          (i < j /\ e[i].commandId = e[j].commandId) => e[i].progress <= e[j].progress

----------------------------------------------------------------------------
(* C2 *)

----------------------------------------------------------------------------
(* C3 *)

ItemId(s, k) == IF IsSetText(s) THEN loc[s].items[k].nodeId ELSE loc[s].items[k]

----------------------------------------------------------------------------
(* C4 *)

----------------------------------------------------------------------------
(* C5 *)

\* C5: when scan_text_nodes, set_multiple_text_contents or
\* delete_multiple_nodes fails a precondition (params missing, a required
\* parameter missing or of the wrong type, the target node not found), it has
\* emitted exactly one command_progress event, of status error, before it
\* rejects, and no node has been changed.
C5_OneErrorEventBeforeRejecting ==
  \A s \in Slots :
    (Rejected(s) /\ (IsDelete(s) \/ IsSetText(s) \/ IsScan(s))) =>
      /\ Len(Events(s)) = 1
      /\ Events(s)[1].status = "error"
      /\ \A n \in Nodes : doc[n].exists /\ doc[n].fills # "orange" /\ doc[n].characters = "old"

----------------------------------------------------------------------------
(* C6 *)

\* C6: for every execute-command message the plugin posts exactly one reply
\* (command-result or command-error) carrying the message's id, and every
\* command_progress event of the command is posted before that reply.
C6_EveryMessageIsReplied ==
  \A s \in Slots :
    /\ [](Len(Replies(s)) <= 1)
    /\ [](\A i, j \in 1..Len(posted) :
            (i < j /\ posted[i].id = s /\ posted[j].id = s)
              => posted[i].type = "command_progress")
    /\ [](pc[s] # "idle" => <>(Len(Replies(s)) = 1))

----------------------------------------------------------------------------
(* C7 *)

\* C7: every invocation of a batch command eventually emits a terminal event
\* and returns or rejects, each host call returning: for every item count and
\* every chunkSize passed to scan_text_nodes the chunk loop ends after
\* finitely many iterations.
C7_ScanTerminates ==
  \A s \in Slots :
    (IsChunkedScan(s) /\ pc[s] = "scan_lookup")
      ~> (/\ pc[s] \in {"returned", "rejected", "replied"}
          /\ Len(Events(s)) > 0
          /\ Events(s)[Len(Events(s))].status \in {"completed", "error"})

----------------------------------------------------------------------------
(* C8 *)

HasCommandId(r) == "commandId" \in DOMAIN r

\* every event of message s carries the id `id`
EventsCarry(s, id) == \A k \in 1..Len(Events(s)) : Events(s)[k].commandId = id

\* C8 as stated: all command_progress events of one top-level invocation
\* carry the same commandId, that id is the commandId of the returned
\* result, and it is created once per invocation.
C8_ResultCarriesTheStreamId ==
  \A s \in Slots :
    /\ \E id \in GenIds \cup {CallerId} : EventsCarry(s, id)
    /\ genCalls[s] <= 1
    /\ Returned(s) =>
         /\ HasCommandId(loc[s].ret)
         /\ EventsCarry(s, loc[s].ret.commandId)

\* C8, amended: all command_progress events of one top-level invocation carry
\* the same commandId; generateCommandId runs at most once per invocation, and
\* not at all when the caller passed a commandId to scan_text_nodes or
\* set_multiple_text_contents, whose events then carry the caller's id; the
\* returned result carries the id of the events, except the result of
\* scan_nodes_by_types, which has no commandId.
C8_OneIdPerInvocation ==
  \A s \in Slots :
    /\ \E id \in GenIds \cup {CallerId} : EventsCarry(s, id)
    /\ genCalls[s] <= 1
    /\ (Len(Events(s)) > 0 /\ genCalls[s] = 0) =>
         /\ IsScan(s) \/ IsSetText(s)
         /\ req[s].params.commandId = CallerId
         /\ EventsCarry(s, CallerId)
    /\ Returned(s) =>
         IF req[s].command = "scan_nodes_by_types"
         THEN ~HasCommandId(loc[s].ret) /\ Len(Events(s)) = 2
         ELSE /\ HasCommandId(loc[s].ret)
              /\ Len(Events(s)) > 0
              /\ EventsCarry(s, loc[s].ret.commandId)

\* test_qa_validation, delegating to validate_qa_rules, has returned with
\* its events under one generated id
C8_Witness ==
  \E s \in Slots :
    /\ Returned(s)
    /\ req[s].command = "test_qa_validation"
    /\ Len(Events(s)) >= 4
    /\ genCalls[s] = 1


----------------------------------------------------------------------------
(* C9 *)

\* C9: in every command_progress event of any command, whatever its status,
\* processedItems is less than or equal to totalItems.
C9_ProcessedWithinTotal ==
  \A k \in 1..Len(posted) :
    posted[k].type = "command_progress" => posted[k].processedItems <= posted[k].totalItems

\* a chunked scan with chunkSize -1 has gone through several turns of its
\* loop, the first of them with a chunk of all nodes but the last
C9_Witness ==
  \E s \in Slots :
    /\ IsChunkedScan(s)
    /\ req[s].params.chunkSize = -1
    /\ loc[s].processedNodes > 1
    /\ loc[s].chunksProcessed > 2

----------------------------------------------------------------------------
(* C10 *)

\* C10: in validate_qa_rules an error thrown while one rule is evaluated on
\* one frame becomes a failed result for that frame and rule whose reason
\* carries the error message; it does not reach the caller (the command
\* rejects only before the first frame is taken up), and every other rule of
\* that frame and every other frame is evaluated and reported.
C10_RuleErrorsAreData ==
  \A s \in Slots :
    /\ (Rejected(s) /\ req[s].command \in {"validate_qa_rules", "test_qa_validation"}) =>
         \A k \in 1..Len(Events(s)) : Events(s)[k].status \in {"started", "error"}
    /\ (Returned(s) /\ loc[s].ret.kind = "qa") =>
      LET results == loc[s].ret.results
      IN  /\ DOMAIN results = Range(loc[s].frames)
          /\ \A f \in DOMAIN results :
               /\ DOMAIN results[f] = RuleIds
               /\ \A r \in RuleIds :
                    LET v == ValidationFunction(doc, f, r)
                    IN  IF "thrown" \in DOMAIN v
                        THEN /\ ~results[f][r].passed
                             /\ results[f][r].reason.text = "Error checking rule: "
                             /\ results[f][r].reason.message = v.message
                        ELSE results[f][r] = v

\* two frames validated, the imagery and corner-radius rules throwing on both,
\* the rules after them in the catalog evaluated all the same
C10_Witness ==
  \E s \in Slots :
    /\ Returned(s)
    /\ loc[s].ret.kind = "qa"
    /\ Len(loc[s].frames) = 2
    /\ \A f \in Range(loc[s].frames) :
         /\ "thrown" \in DOMAIN ValidationFunction(doc, f, "imagery_edge_to_edge")
         /\ "thrown" \in DOMAIN ValidationFunction(doc, f, "corner_radius")
         /\ ~loc[s].ret.results[f]["card_shadow"].passed
         /\ loc[s].ret.results[f]["card_shadow"].reason.message = ""
         /\ loc[s].ret.results[f]["typeface"].passed

----------------------------------------------------------------------------
(* C11 *)

IsQA(s) == Returned(s) /\ loc[s].ret.kind = "qa"

\* C11: for every frame validated by validate_qa_rules each placeholder rule
\* (bottom_os_bar, ui_language, too_many_buttons, button_bar_shadow and the
\* four vertical_spacing rules) has an entry in the frame's results with
\* passed = true, and no rule of the catalog is missing from a frame's
\* results.
C11_PlaceholdersPassAndNoRuleOmitted ==
  \A s \in Slots :
    IsQA(s) =>
      /\ \A k \in 1..Len(loc[s].frames) : loc[s].frames[k] \in DOMAIN loc[s].ret.results
      /\ \A f \in DOMAIN loc[s].ret.results :
           /\ DOMAIN loc[s].ret.results[f] = RuleIds
           /\ \A r \in PlaceholderRules : loc[s].ret.results[f][r].passed

\* two frames have been validated while other rules fail or throw on them
C11_Witness ==
  \E s \in Slots :
    /\ IsQA(s)
    /\ Cardinality(DOMAIN loc[s].ret.results) = 2
    /\ \A f \in DOMAIN loc[s].ret.results :
         /\ \E r \in RuleIds : ~loc[s].ret.results[f][r].passed
         /\ loc[s].ret.results[f]["ui_language"].passed

----------------------------------------------------------------------------
(* validate_qa_rules and test_qa_validation on the pages of QADocs *)

QARequests ==
  {[command |-> "validate_qa_rules", params |-> p] : p \in ValidateParams}
  \cup {[command |-> "test_qa_validation", params |-> NoParams]}

ReceiveQA(s) == ReceiveFrom(s, QARequests)

InitQA ==
  /\ doc \in QADocs
  /\ selection = <<>>
  /\ pc = [s \in Slots |-> "idle"]
  /\ req = [s \in Slots |-> [command |-> "", params |-> NoParams]]
  /\ loc = [s \in Slots |-> InitLoc]
  /\ posted = <<>>
  /\ genCalls = [s \in Slots |-> 0]

NextQA ==
  \E s \in Slots :
    \/ ReceiveQA(s)
    \/ ValLoaded(s)
    \/ ValIdsResolved(s)
    \/ Reply(s)

QASpec == InitQA /\ [][NextQA]_vars

----------------------------------------------------------------------------
(* C12 *)

\* frame f is of mobile width 400 and has exactly one direct child, at
\* x = 10, whose name contains neither "background" nor "status"
OneChildAtTen(f) ==
  /\ doc[f].width = 400
  /\ Len(LiveChildren(doc, f)) = 1
  /\ doc[LiveChildren(doc, f)[1]].x = 10
  /\ NameWords(doc[LiveChildren(doc, f)[1]].name) \cap {"background", "status"} = {}

RightMarginOf(f) ==
  doc[f].width - (doc[LiveChildren(doc, f)[1]].x + doc[LiveChildren(doc, f)[1]].width)

MarginDetails(s, f) == loc[s].ret.results[f]["consistent_page_margins"].details

----------------------------------------------------------------------------
(* C13 *)

\* the solid fill of the nearest ancestor of n that has one, white when no
\* ancestor has one
NearestBackground(d, n) ==
  IF AncestorFill(d, Parent(n)) = "" THEN "white" ELSE AncestorFill(d, Parent(n))

\* the nodes a contrast rule looks at under frame f: visible text with
\* content, or visible layers named as UI controls, that have a solid colour
ContrastChecked(f, rule) ==
  {m \in Range(Walk(doc, f)) :
     /\ doc[m].visible
     /\ SolidColor(doc[m].fills) # ""
     /\ IF rule = "color_contrast_text"
        THEN NodeType(m) = "TEXT" /\ doc[m].characters # ""
        ELSE NameWords(doc[m].name) \cap UIWords # {}}

RequiredRatio(rule) == IF rule = "color_contrast_text" THEN 450 ELSE 300

\* C13: in the text-contrast and UI-contrast rules the background colour a
\* node's contrast ratio is computed against is the solid fill of the nearest
\* ancestor that has a solid fill, and white only when no ancestor has one:
\* the nodes flagged are those whose ratio against that background is under
\* the required ratio, and every violation reports that background and that
\* ratio.
C13_BackgroundIsNearestSolidAncestor ==
  \A s \in Slots :
    IsQA(s) =>
      \A f \in DOMAIN loc[s].ret.results :
        \A rule \in {"color_contrast_text", "color_contrast_ui"} :
          LET v == loc[s].ret.results[f][rule].details
          IN  /\ {v[k].nodeId : k \in 1..Len(v)} =
                   {m \in ContrastChecked(f, rule) :
                      CalculateContrastRatio(SolidColor(doc[m].fills),
                                             NearestBackground(doc, m)) < RequiredRatio(rule)}
              /\ \A k \in 1..Len(v) :
                   /\ v[k].backgroundColor = NearestBackground(doc, v[k].nodeId)
                   /\ v[k].contrastRatio =
                        CalculateContrastRatio(v[k].color, NearestBackground(doc, v[k].nodeId))

----------------------------------------------------------------------------
(* C14 *)

\* the validator of rule returned for frame f: its entry is not the one made
\* of a rejection
RuleReturned(s, f, rule) == loc[s].ret.results[f][rule].reason.message = ""

\* the violation entries of the corner-radius rule of frame f about node n
RadiusEntries(s, f, n) ==
  LET v == loc[s].ret.results[f]["corner_radius"].details
  IN  {v[k] : k \in {j \in 1..Len(v) : v[j].nodeId = n}}

\* C14: in the corner-radius rule every collected card or image node with a
\* uniform radius of exactly 6 produces no violation, every one with another
\* uniform radius produces a violation, and every one whose four corner radii
\* are not all equal produces a violation that lists all four values,
\* whatever those values are.
C14_CornerRadiusVerdicts ==
  \A s \in Slots :
    IsQA(s) =>
      \A f \in DOMAIN loc[s].ret.results :
        RuleReturned(s, f, "corner_radius") =>
          \A n \in Range(TargetNodes(doc, f)) :
            LET c == doc[n].corners
                e == RadiusEntries(s, f, n)
            IN  /\ (AllSame(c) /\ c[1] = 6) => e = {}
                /\ (AllSame(c) /\ c[1] # 6) =>
                     /\ Cardinality(e) = 1
                     /\ \A x \in e : "actualRadius" \in DOMAIN x /\ x.actualRadius = c[1]
                /\ ~AllSame(c) =>
                     /\ Cardinality(e) = 1
                     /\ \A x \in e : "cornerRadii" \in DOMAIN x /\ x.cornerRadii = c

\* a frame has been validated in which one collected node has corners 6, 6,
\* 0, 0, reported with all four, and another has the uniform radius 6
C14_Witness ==
  \E s \in Slots :
    /\ IsQA(s)
    /\ \E f \in DOMAIN loc[s].ret.results :
         /\ RuleReturned(s, f, "corner_radius")
         /\ \E n, m \in Range(TargetNodes(doc, f)) :
              /\ doc[n].corners = <<6, 6, 0, 0>>
              /\ \E x \in RadiusEntries(s, f, n) : x.cornerRadii = <<6, 6, 0, 0>>
              /\ doc[m].corners = Uniform(6)
              /\ RadiusEntries(s, f, m) = {}

----------------------------------------------------------------------------
(* C15 *)

\* C15: every violation entry produced by a failing rule of
\* validate_qa_rules (page margins, contrast text, contrast UI, corner
\* radius, typeface, card shadow) contains the display name of the element
\* and the node id of the element as captured at validation time.
C15_ViolationsCarryNameAndId ==
  \A s \in Slots :
    IsQA(s) =>
      \A f \in DOMAIN loc[s].ret.results :
        \A rule \in RuleIds :
          LET v == loc[s].ret.results[f][rule].details
          IN  \A k \in 1..Len(v) :
                /\ "element" \in DOMAIN v[k]
                /\ "nodeId" \in DOMAIN v[k]
                /\ v[k].nodeId \in Subtree(f)
                /\ v[k].element = doc[v[k].nodeId].name

----------------------------------------------------------------------------
(* Two validate_qa_rules messages served on a document nothing modifies *)

Runs == {1, 2}

TwiceRequests ==
  {[command |-> "validate_qa_rules",
    params |-> [present |-> TRUE, ignoreStatusBar |-> TRUE, frameIds |-> ids,
                useSelection |-> FALSE]] : ids \in {<<>>, <<1>>, <<3, 1>>}}
  \cup {[command |-> "test_qa_validation", params |-> NoParams]}

ReceiveTwice(s) == ReceiveFrom(s, TwiceRequests)

InitTwice ==
  /\ doc \in InitDocs \cup StyleDocs
  /\ selection = <<>>
  /\ pc = [s \in Runs |-> "idle"]
  /\ req = [s \in Runs |-> [command |-> "", params |-> NoParams]]
  /\ loc = [s \in Runs |-> InitLoc]
  /\ posted = <<>>
  /\ genCalls = [s \in Runs |-> 0]

NextTwice ==
  \E s \in Runs :
    \/ ReceiveTwice(s)
    \/ ValLoaded(s)
    \/ ValIdsResolved(s)
    \/ Reply(s)

TwiceSpec == InitTwice /\ [][NextTwice]_vars

----------------------------------------------------------------------------
(* C16 *)

\* C16: running validate_qa_rules twice on the same frames, with no
\* modification of the document between the two runs, yields identical
\* report content and identical results.
C16_SameFramesSameReport ==
  \A r1, r2 \in Runs :
    (IsQA(r1) /\ IsQA(r2) /\ loc[r1].frames = loc[r2].frames) =>
      /\ loc[r1].ret.results = loc[r2].ret.results
      /\ loc[r1].ret.report = loc[r2].ret.report

----------------------------------------------------------------------------
(* scanTextNodes of modules/components.js, 635-689, and the scan commands *)

\* scanNode (659-670): every TEXT node of the subtree, in document order
ScanNode(d, node) == SelectSeq(Walk(d, node), LAMBDA m : NodeType(m) = "TEXT")

\* scanTextNodes(params) of modules/components.js: figma.getNodeById is
\* synchronous, so the call runs to its return or to its throw in one step;
\* nodeId 0 stands for a params without nodeId
ComponentsScanTextNodes(s) ==
  /\ pc[s] = "idle"
  /\ \E nodeId \in {0, 1, 3, MissingId} :
       /\ req' = [req EXCEPT ![s] = [command |-> "components.scanTextNodes",
                                     params |-> [present |-> TRUE, nodeId |-> nodeId]]]
       /\ IF nodeId = 0 \/ GetNodeById(doc, nodeId) = 0
          THEN /\ pc' = [pc EXCEPT ![s] = "rejected"]
               /\ UNCHANGED loc
          ELSE /\ loc' = [loc EXCEPT ![s].ret =
                            [kind |-> "components_scan",
                             count |-> Len(ScanNode(doc, nodeId)),
                             textNodes |-> ScanNode(doc, nodeId)]]
               /\ pc' = [pc EXCEPT ![s] = "returned"]
  /\ UNCHANGED <<doc, selection, posted, genCalls>>

\* pages with hidden layers
HiddenDocs == {DocWith(h, "none") : h \in SUBSET {1, 3, 4}}

AllScanRequests ==
  {r \in Requests : r.command \in {"scan_text_nodes", "scan_nodes_by_types"}}

ReceiveAnyScan(s) == ReceiveFrom(s, AllScanRequests)

InitScans ==
  /\ doc \in HiddenDocs \cup InitDocs
  /\ selection = <<>>
  /\ pc = [s \in Slots |-> "idle"]
  /\ req = [s \in Slots |-> [command |-> "", params |-> NoParams]]
  /\ loc = [s \in Slots |-> InitLoc]
  /\ posted = <<>>
  /\ genCalls = [s \in Slots |-> 0]

NextScans ==
  \E s \in Slots :
    \/ ReceiveAnyScan(s)
    \/ ComponentsScanTextNodes(s)
    \/ ScanLookup(s)
    \/ FindResume(s)
    \/ ScanHoldDone(s)
    \/ ScanGapDone(s)
    \/ ScanNextChunk(s)
    \/ SbtLookup(s)
    \/ Reply(s)

ScansSpec == InitScans /\ [][NextScans]_vars

----------------------------------------------------------------------------
(* C17 *)

\* the nodes from n up to the scan root, both included
RECURSIVE PathUp(_, _)
PathUp(n, root) == IF n = root \/ Parent(n) = 0 THEN {n} ELSE {n} \cup PathUp(Parent(n), root)

\* the nodes a returned scan lists
Scanned(s) ==
  IF loc[s].ret.kind = "scan_by_types" THEN Range(loc[s].ret.matchingNodes)
  ELSE Range(loc[s].ret.textNodes)

IsScanResult(s) ==
  Returned(s) /\ loc[s].ret.kind \in {"scan", "scan_by_types", "components_scan"}

\* C17: no scan result (scan_text_nodes chunked or unchunked,
\* scan_nodes_by_types) contains a node whose visible flag is false, or a
\* node that has an ancestor at or below the scan root whose visible flag is
\* false.
C17_ScansListNoHiddenNode ==
  \A s \in Slots :
    IsScanResult(s) =>
      \A n \in Scanned(s) : \A m \in PathUp(n, req[s].params.nodeId) : doc[m].visible

\* the same for the two commands code.js serves
CodeJsScansListNoHiddenNode ==
  \A s \in Slots :
    (IsScanResult(s) /\ loc[s].ret.kind # "components_scan") =>
      \A n \in Scanned(s) : \A m \in PathUp(n, req[s].params.nodeId) : doc[m].visible

----------------------------------------------------------------------------
(* The locator and highlightQAElement, code.js 4153-4478 *)

\* String.prototype.toLowerCase on the names of the layers
Lower(name) ==
  CASE name = "Home" -> "home" [] name = "Title" -> "title" [] name = "Card" -> "card"
    [] name = "Label" -> "label" [] name = "Photo" -> "photo"
    [] name = "Button" -> "button" [] name = "Icon Button" -> "icon button"
    [] name = "Background" -> "background"
    [] OTHER -> name

\* String.prototype.includes on the names and texts of the layers
Includes(str, sub) ==
  \/ str = sub
  \/ sub = ""
  \/ <<str, sub>> \in {<<"Icon Button", "Button">>, <<"older", "old">>}

\* the visible nodes of the subtree in the order searchNode visits them
\* (4327, 4390, 4439): a hidden node is left with its subtree
RECURSIVE SearchWalk(_, _)
RECURSIVE SearchWalkAll(_, _, _)
SearchWalk(d, n) ==
  IF ~d[n].exists \/ ~d[n].visible THEN <<>>
  ELSE <<n>> \o SearchWalkAll(d, Children(n), 1)
SearchWalkAll(d, kids, k) ==
  IF k > Len(kids) THEN <<>>
  ELSE SearchWalk(d, kids[k]) \o SearchWalkAll(d, kids, k + 1)

NoCandidate == [node |-> 0, exactMatch |-> FALSE, score |-> 0]

\* the entry of a node whose name alone matches flagged as an exact match
RadiusCandidateNameIsExact(d, n, sd) ==
  IF sd.elementName # "" /\ d[n].name = sd.elementName
  THEN [node |-> n, exactMatch |-> TRUE, score |-> 100]
  ELSE IF d[n].corners # <<>> /\ sd.actualRadius # -1 /\ d[n].corners[1] = sd.actualRadius
  THEN [node |-> n, exactMatch |-> FALSE, score |-> 40]
  ELSE NoCandidate

\* what searchNode of findNodeByCornerRadius pushes for a node (4329-4366);
\* actualRadius -1 stands for a descriptor without actualRadius, whose
\* differences are NaN
RadiusCandidate(d, n, sd) ==
  LET nameMatches == sd.elementName # "" /\ d[n].name = sd.elementName
      radiusMatches == /\ d[n].corners # <<>>
                       /\ AllSame(d[n].corners)
                       /\ sd.actualRadius # -1
                       /\ d[n].corners[1] = sd.actualRadius
      individualRadiusMatches == /\ d[n].corners # <<>>
                                 /\ sd.actualRadius # -1
                                 /\ d[n].corners[1] = sd.actualRadius
  IN  IF nameMatches /\ (radiusMatches \/ individualRadiusMatches)
      THEN [node |-> n, exactMatch |-> TRUE, score |-> 100]
      ELSE IF nameMatches \/ radiusMatches \/ individualRadiusMatches
      THEN [node |-> n, exactMatch |-> FALSE,
            score |-> (IF nameMatches THEN 50 ELSE 0)
                      + (IF radiusMatches \/ individualRadiusMatches THEN 40 ELSE 0)]
      ELSE NoCandidate

\* what searchNode of findNodeByTextContrast pushes for a node (4393-4415)
TextCandidate(d, n, sd) ==
  LET nameMatches == sd.elementName # "" /\ d[n].name = sd.elementName
      textMatches == /\ sd.text # ""
                     /\ d[n].characters # ""
                     /\ Includes(d[n].characters, sd.text)
  IN  IF NodeType(n) = "TEXT" /\ (nameMatches \/ textMatches)
      THEN [node |-> n, exactMatch |-> nameMatches /\ textMatches,
            score |-> (IF nameMatches THEN 50 ELSE 0) + (IF textMatches THEN 50 ELSE 0)]
      ELSE NoCandidate

\* what searchNode of findNodeByUIContrast pushes for a node (4441-4463)
UICandidate(d, n, sd) ==
  LET isUIElement == NameWords(d[n].name) \cap {"button", "icon", "control", "input"} # {}
      nameMatches == sd.elementName # "" /\ d[n].name = sd.elementName
  IN  IF nameMatches
         \/ (isUIElement /\ sd.elementName # "" /\ Includes(d[n].name, sd.elementName))
      THEN [node |-> n, exactMatch |-> nameMatches,
            score |-> (IF nameMatches THEN 70 ELSE 0) + (IF isUIElement THEN 30 ELSE 0)]
      ELSE NoCandidate

Candidate(d, n, sd) ==
  CASE sd.ruleId = "corner_radius" -> RadiusCandidate(d, n, sd)
    [] sd.ruleId = "color_contrast_text" -> TextCandidate(d, n, sd)
    [] OTHER -> UICandidate(d, n, sd)

\* the results array after searchNode(parent), in the order of the pushes
Results(d, parent, sd) ==
  LET all == [k \in 1..Len(SearchWalk(d, parent)) |->
                Candidate(d, SearchWalk(d, parent)[k], sd)]
  IN  SelectSeq(all, LAMBDA c : c.node # 0)

\* the first entry pushed, the array being left unsorted
BestUnsorted(results) == IF results = <<>> THEN NoCandidate ELSE results[1]

\* the last entry pushed
BestLast(results) == IF results = <<>> THEN NoCandidate ELSE results[Len(results)]

\* results.sort((a, b) => b.score - a.score)[0], the sort being stable: the
\* first of the entries of the highest score; NoCandidate for an empty array
Best(results) ==
  IF results = <<>> THEN NoCandidate
  ELSE LET top == CHOOSE k \in 1..Len(results) :
                    /\ \A j \in 1..Len(results) : results[j].score <= results[k].score
                    /\ \A j \in 1..(k - 1) : results[j].score < results[k].score
       IN  results[top]

\* findNodeByName (4300-4317): the first node in document order whose
\* lower-cased name is the lower-cased name looked for; hidden nodes are
\* looked at as well
FindNodeByName(d, parent, name) ==
  LET hits == SelectSeq(Walk(d, parent), LAMBDA n : Lower(d[n].name) = Lower(name))
  IN  IF name = "" \/ hits = <<>> THEN NoCandidate
      ELSE [node |-> hits[1], exactMatch |-> FALSE, score |-> 0]

\* the search of highlightQAElement within the frame (4178-4188): the entry
\* of the node returned, its node being 0 for null; findNodeByName has no
\* entries, so no flag and no score
Locate(d, frame, sd) ==
  IF sd.ruleId \in {"corner_radius", "color_contrast_text", "color_contrast_ui"}
  THEN Best(Results(d, frame, sd))
  ELSE FindNodeByName(d, frame, sd.elementName)

\* the descriptors the UI sends: nodeId and frameId (0: absent), elementName
\* and text ("": absent), actualRadius (-1: absent)
SearchData(nodeId, frameId, ruleId, elementName, actualRadius, text) ==
  [present |-> TRUE, nodeId |-> nodeId, frameId |-> frameId, ruleId |-> ruleId,
   elementName |-> elementName, actualRadius |-> actualRadius, text |-> text]

SearchNames == {"", "Card", "Label", "Button"}

SearchDatas ==
  {[present |-> FALSE]}
  \cup {SearchData(nid, fid, "corner_radius", nm, r, "") :
          nid \in {0, 4, MissingId}, fid \in {0, 1, 3, MissingId}, nm \in SearchNames,
          r \in {-1, 0, 8}}
  \cup {SearchData(nid, fid, "color_contrast_text", nm, -1, t) :
          nid \in {0, 4, MissingId}, fid \in {0, 1, 3, MissingId}, nm \in SearchNames,
          t \in {"", "old"}}
  \cup {SearchData(nid, fid, rule, nm, -1, "") :
          nid \in {0, 4, MissingId}, fid \in {0, 1, 3, MissingId}, nm \in SearchNames,
          rule \in {"color_contrast_ui", "typeface"}}

\* what the call leaves behind: the boolean returned, the node the lookup or
\* the search gave (viaSearch) with the flag and score of its entry, and
\* whether the highlight was applied
HlReturn(l, value, found, viaSearch, applied) ==
  [l EXCEPT !.target = found.node,
            !.ret = [kind |-> "highlight", value |-> value, target |-> found.node,
                     exactMatch |-> found.exactMatch, score |-> found.score,
                     viaSearch |-> viaSearch, applied |-> applied]]

\* the catch of highlightQAElement (4292-4296): return false
HlFalse(s, l) ==
  /\ loc' = [loc EXCEPT ![s] = HlReturn(l, FALSE, NoCandidate, FALSE, FALSE)]
  /\ pc' = [pc EXCEPT ![s] = "hl_settled"]
  /\ UNCHANGED <<doc, selection>>

\* the write of the highlight step that the host refuses, if any: a layer
\* whose fills, strokes or stroke weight cannot be set makes the assignment
\* throw (4216, 4225, 4232)
WriteRefusals == {"none", "fills", "strokes", "strokeWeight"}

\* the assignments of the highlight step in their order (4215-4234), up to
\* the first one that throws
ApplyHighlight(d, n, refused) ==
  CASE refused = "fills" -> d
    [] refused = "strokes" -> [d EXCEPT ![n].fills = "qa_highlight"]
    [] refused = "strokeWeight" -> [d EXCEPT ![n].fills = "qa_highlight",
                                             ![n].strokes = "qa_highlight"]
    [] OTHER -> [d EXCEPT ![n].fills = "qa_highlight", ![n].strokes = "qa_highlight",
                          ![n].strokeWeight = 2]

\* the catch of the highlight step (4278-4288): fills, then strokes, are put
\* back; the write the host refused throws again and ends the attempt
RestoreAfterError(d, n, o, refused) ==
  CASE refused = "fills" -> d
    [] refused = "strokes" -> [d EXCEPT ![n].fills = o.fills]
    [] OTHER -> [d EXCEPT ![n].fills = o.fills, ![n].strokes = o.strokes]

\* highlightQAElement from the target being known to its return (4191-4296):
\* the selection is set, JSON.stringify of figma.mixed fills throws, the
\* original appearance is saved, and the highlight step either arms the
\* revert timer or throws into the inner catch, which restores at once
HlApply(s, l, found, viaSearch) ==
  LET n == found.node
      original == [fills |-> doc[n].fills, strokes |-> doc[n].strokes,
                   strokeWeight |-> doc[n].strokeWeight, effects |-> doc[n].shadow]
  IN  IF n = 0 THEN HlFalse(s, l)
      ELSE /\ selection' = <<n>>
           /\ IF doc[n].fills = "mixed"
              THEN /\ loc' = [loc EXCEPT ![s] = HlReturn(l, FALSE, found, viaSearch, FALSE)]
                   /\ UNCHANGED doc
              ELSE \E refused \in WriteRefusals :
                     IF refused = "none"
                     THEN /\ doc' = ApplyHighlight(doc, n, refused)
                          /\ loc' = [loc EXCEPT ![s] =
                                       [HlReturn(l, TRUE, found, viaSearch, TRUE)
                                          EXCEPT !.originalState = original,
                                                 !.timer = "armed"]]
                     ELSE /\ doc' = RestoreAfterError(ApplyHighlight(doc, n, refused),
                                                      n, original, refused)
                          /\ loc' = [loc EXCEPT ![s] =
                                       [HlReturn(l, TRUE, found, viaSearch, FALSE)
                                          EXCEPT !.originalState = original,
                                                 !.highlightError = refused]]
           /\ pc' = [pc EXCEPT ![s] = "hl_settled"]

\* after the lookup by id: the frame is looked up, or the call ends in the
\* catch when the descriptor has no frameId (4168-4174)
HlNeedFrame(s, l) ==
  IF l.searchData.frameId = 0 THEN HlFalse(s, l)
  ELSE /\ pc' = [pc EXCEPT ![s] = "hl_frame"]
       /\ loc' = [loc EXCEPT ![s] = l]
       /\ UNCHANGED <<doc, selection>>

\* a highlight-qa-element message arrives (85-87): highlightQAElement is
\* called and runs to its first await; nothing is awaited or posted by
\* onmessage
ReceiveHighlightFrom(s, datas) ==
  /\ pc[s] = "idle"
  /\ \E sd \in datas :
       LET l == [InitLoc EXCEPT !.searchData = sd]
       IN  /\ req' = [req EXCEPT ![s] = [command |-> "highlight-qa-element", params |-> sd]]
           /\ IF ~sd.present THEN HlFalse(s, l)
              ELSE IF sd.nodeId # 0
              THEN /\ pc' = [pc EXCEPT ![s] = "hl_id"]
                   /\ loc' = [loc EXCEPT ![s] = l]
                   /\ UNCHANGED <<doc, selection>>
              ELSE HlNeedFrame(s, l)
  /\ UNCHANGED <<posted, genCalls>>

ReceiveHighlight(s) == ReceiveHighlightFrom(s, SearchDatas)

\* the node of the id is not used: the frame is searched whatever the lookup gave
HlIdResolvedAlwaysSearches(s) ==
  /\ pc[s] = "hl_id"
  /\ HlNeedFrame(s, loc[s])
  /\ UNCHANGED <<req, posted, genCalls>>

\* await figma.getNodeByIdAsync(searchData.nodeId) has resolved (4160-4165)
HlIdResolved(s) ==
  /\ pc[s] = "hl_id"
  /\ LET n == GetNodeById(doc, loc[s].searchData.nodeId)
     IN  IF n # 0
         THEN HlApply(s, loc[s], [node |-> n, exactMatch |-> FALSE, score |-> 0], FALSE)
         ELSE HlNeedFrame(s, loc[s])
  /\ UNCHANGED <<req, posted, genCalls>>

\* await figma.getNodeByIdAsync(searchData.frameId) has resolved (4170); the
\* find functions await nothing of the host
HlFrameResolved(s) ==
  /\ pc[s] = "hl_frame"
  /\ LET frame == GetNodeById(doc, loc[s].searchData.frameId)
     IN  IF frame = 0 THEN HlFalse(s, loc[s])
         ELSE HlApply(s, loc[s], Locate(doc, frame, loc[s].searchData), TRUE)
  /\ UNCHANGED <<req, posted, genCalls>>

\* the callback of setTimeout(..., 1500) starts: it awaits
\* figma.getNodeByIdAsync(nodeId) (4240-4243)
HlTimer(s) ==
  /\ loc[s].timer = "armed"
  /\ loc' = [loc EXCEPT ![s].timer = "lookup"]
  /\ UNCHANGED <<doc, selection, pc, req, posted, genCalls>>

\* the callback puts back the fills only
HlRestoreFillsOnly(s) ==
  /\ loc[s].timer = "lookup"
  /\ LET n == GetNodeById(doc, loc[s].target)
     IN  doc' = IF n = 0 THEN doc
                ELSE [doc EXCEPT ![n].fills = loc[s].originalState.fills]
  /\ loc' = [loc EXCEPT ![s].timer = "done"]
  /\ UNCHANGED <<selection, pc, req, posted, genCalls>>

\* the lookup of the callback has resolved: the original appearance is put
\* back on the node if it is still there (4243-4267)
HlRestore(s) ==
  /\ loc[s].timer = "lookup"
  /\ LET n == GetNodeById(doc, loc[s].target)
         o == loc[s].originalState
     IN  doc' = IF n = 0 THEN doc
                ELSE [doc EXCEPT ![n].fills = o.fills, ![n].strokes = o.strokes,
                                 ![n].strokeWeight = o.strokeWeight,
                                 ![n].shadow = o.effects]
  /\ loc' = [loc EXCEPT ![s].timer = "done"]
  /\ UNCHANGED <<selection, pc, req, posted, genCalls>>

\* the pages the locator searches: a second layer of the name looked for,
\* names that differ in case, radii, texts, hidden and removed layers, mixed
\* fills
LocatorDocs ==
  {[DocWith(h, q) EXCEPT ![5].name = n5, ![2].name = n2, ![5].corners = c5,
                         ![2].characters = t2] :
     h \in {{}, {3}, {4}}, q \in {"none", "mixedFills"},
     n5 \in {"Photo", "Card", "card", "Icon Button"}, n2 \in {"Title", "Label"},
     c5 \in {Uniform(0), Uniform(8), <<8, 0, 0, 0>>}, t2 \in {"old", "older"}}
  \cup {RemoveNode(Page, 4)}

InitHighlight ==
  /\ doc \in LocatorDocs
  /\ selection = <<>>
  /\ pc = [s \in Slots |-> "idle"]
  /\ req = [s \in Slots |-> [command |-> "", params |-> NoParams]]
  /\ loc = [s \in Slots |-> InitLoc]
  /\ posted = <<>>
  /\ genCalls = [s \in Slots |-> 0]

NextHighlight ==
  \E s \in Slots :
    \/ ReceiveHighlight(s)
    \/ HlIdResolved(s)
    \/ HlFrameResolved(s)
    \/ HlTimer(s)
    \/ HlRestore(s)

HighlightSpec == InitHighlight /\ [][NextHighlight]_vars

----------------------------------------------------------------------------
(* C18 *)

IsHighlight(s) == pc[s] = "hl_settled" /\ loc[s].ret.kind = "highlight"

\* the descriptor of message s has no id that resolves, and its frame is a
\* live node: the search root
SlowPath(s) ==
  /\ loc[s].searchData.present
  /\ GetNodeById(doc, loc[s].searchData.nodeId) = 0
  /\ GetNodeById(doc, loc[s].searchData.frameId) # 0

\* the live nodes of the search root that have the name of the descriptor
Named(s) ==
  {n \in Range(Walk(doc, loc[s].searchData.frameId)) : doc[n].name = loc[s].searchData.elementName}

\* the descriptor carries a name and no rule-specific field, and exactly one
\* live node of the search root has that name
OnlyNameOneNode(s) ==
  /\ SlowPath(s)
  /\ loc[s].searchData.elementName # ""
  /\ loc[s].searchData.actualRadius = -1
  /\ loc[s].searchData.text = ""
  /\ Cardinality(Named(s)) = 1

TheNamed(s) == CHOOSE n \in Named(s) : TRUE

\* n and its ancestors up to the search root are visible
Reachable(s, n) == n \in Range(SearchWalk(doc, loc[s].searchData.frameId))

\* C18 as stated: given a descriptor that carries only a name (no resolvable
\* id) and a search root in which exactly one live node has that name, the
\* locator returns that node and flags it as an exact match, for every rule
\* type of the descriptor.
C18_NameOnlyIsExactMatch ==
  \A s \in Slots :
    (IsHighlight(s) /\ OnlyNameOneNode(s)) =>
      /\ loc[s].ret.target = TheNamed(s)
      /\ loc[s].ret.exactMatch

\* C18 amended: with such a descriptor and root, the rule types corner_radius
\* and color_contrast_ui return the node exactly when it and its ancestors up
\* to the root are visible, color_contrast_text exactly when it is moreover a
\* text node, and the other rule types return the first node in document
\* order whose name is the name looked for ignoring case, which is the node
\* when no other name differs from it in case only; the match is flagged as
\* exact by color_contrast_ui alone.
C18_NameOnlyByRuleType ==
  \A s \in Slots :
    (IsHighlight(s) /\ OnlyNameOneNode(s)) =>
      LET sd == loc[s].searchData
          u == TheNamed(s)
          r == loc[s].ret
          sameIgnoringCase ==
            SelectSeq(Walk(doc, sd.frameId),
                      LAMBDA n : Lower(doc[n].name) = Lower(sd.elementName))
      IN  CASE sd.ruleId = "corner_radius" ->
                 /\ (r.target = u) <=> Reachable(s, u)
                 /\ ~r.exactMatch
            [] sd.ruleId = "color_contrast_ui" ->
                 /\ (r.target = u) <=> Reachable(s, u)
                 /\ (r.target = u) => r.exactMatch
            [] sd.ruleId = "color_contrast_text" ->
                 /\ (r.target = u) <=> (Reachable(s, u) /\ NodeType(u) = "TEXT")
                 /\ ~r.exactMatch
            [] OTHER ->
                 /\ r.target = sameIgnoringCase[1]
                 /\ Len(sameIgnoringCase) = 1 => r.target = u
                 /\ ~r.exactMatch

\* a corner_radius descriptor with only the name of one visible layer has
\* been served: the layer is returned, not flagged as exact
C18_Witness ==
  \E s \in Slots :
    /\ IsHighlight(s)
    /\ OnlyNameOneNode(s)
    /\ loc[s].searchData.ruleId = "corner_radius"
    /\ loc[s].ret.target = TheNamed(s)
    /\ loc[s].ret.viaSearch
    /\ ~loc[s].ret.exactMatch

----------------------------------------------------------------------------
(* C19 *)

\* the descriptor of message s carries an id that resolves to no live node
StaleId(s) ==
  /\ loc[s].searchData.present
  /\ loc[s].searchData.nodeId # 0
  /\ GetNodeById(doc, loc[s].searchData.nodeId) = 0

\* the rule-specific field of the descriptor matches node n: the corner
\* radius (the top-left one where the corners differ) is actualRadius, or
\* the characters of a text node contain the excerpt
FieldMatches(s, n) ==
  LET sd == loc[s].searchData
  IN  CASE sd.ruleId = "corner_radius" ->
             sd.actualRadius # -1 /\ doc[n].corners # <<>> /\ doc[n].corners[1] = sd.actualRadius
        [] sd.ruleId = "color_contrast_text" ->
             sd.text # "" /\ NodeType(n) = "TEXT" /\ Includes(doc[n].characters, sd.text)
        [] OTHER -> FALSE

\* the live nodes of the search root matching both the name and the field
NamedWithField(s) == {n \in Named(s) : FieldMatches(s, n)}

StaleIdOneMatch(s) ==
  /\ StaleId(s)
  /\ SlowPath(s)
  /\ loc[s].searchData.elementName # ""
  /\ Cardinality(NamedWithField(s)) = 1

TheMatch(s) == CHOOSE n \in NamedWithField(s) : TRUE

\* C19 as stated: given a descriptor whose id no longer resolves to a live
\* node but whose name and rule-specific field (corner radius, text excerpt)
\* together match exactly one live node under the search root, the locator
\* returns that node through the scored traversal, whatever other nodes
\* match only the name or only the field.
C19_StaleIdFallsBackToTheMatch ==
  \A s \in Slots :
    (IsHighlight(s) /\ StaleIdOneMatch(s)) =>
      /\ loc[s].ret.target = TheMatch(s)
      /\ loc[s].ret.viaSearch

\* C19 amended: with such a descriptor the scored traversal returns that
\* node, as an exact match of score 100, exactly when the node and its
\* ancestors up to the search root are visible, whatever other nodes match
\* only the name or only the field; a node in a hidden subtree is not
\* visited and another node, or none, is returned.
C19_StaleIdFallsBackToTheVisibleMatch ==
  \A s \in Slots :
    (IsHighlight(s) /\ StaleIdOneMatch(s)) =>
      /\ (loc[s].ret.target = TheMatch(s)) <=> Reachable(s, TheMatch(s))
      /\ (loc[s].ret.target = TheMatch(s)) =>
           /\ loc[s].ret.viaSearch
           /\ loc[s].ret.exactMatch
           /\ loc[s].ret.score = 100

\* a stale id has been served by the search, which visited a node matching
\* the field alone before the node matching name and field, and returned
\* the latter
C19_Witness ==
  \E s \in Slots :
    /\ IsHighlight(s)
    /\ StaleIdOneMatch(s)
    /\ loc[s].ret.target = TheMatch(s)
    /\ loc[s].ret.viaSearch
    /\ LET res == Results(doc, loc[s].searchData.frameId, loc[s].searchData)
       IN  Len(res) >= 2 /\ res[1].node # TheMatch(s) /\ res[1].score < 100

----------------------------------------------------------------------------
(* C20 *)

\* nothing of message s is left to run: its call has settled and no revert
\* is pending
HlQuiescent(s) == IsHighlight(s) /\ loc[s].timer \in {"none", "done"}

\* C20: highlight-qa-element yields true if and only if a target node was
\* found and the highlight override was applied to it; it yields false when
\* no node is found and when the highlight step itself fails; and that
\* boolean is what the requester receives as the result of the command: by
\* the time nothing of the message is left to run, a reply to it has been
\* posted.
C20_TrueIffFoundAndHighlighted ==
  \A s \in Slots :
    IsHighlight(s) =>
      /\ loc[s].ret.value <=> (loc[s].ret.target # 0 /\ loc[s].ret.applied)
      /\ HlQuiescent(s) => Replies(s) # <<>>

----------------------------------------------------------------------------
(* C21 *)

\* the pages of the revert: layers hidden or not, mixed fills or not, a
\* second layer named Card or not
RevertDocs ==
  {[DocWith(h, q) EXCEPT ![5].name = n5] :
     h \in {{}, {3}}, q \in {"none", "mixedFills"}, n5 \in {"Photo", "Card"}}

InitRevert ==
  /\ doc \in RevertDocs
  /\ selection = <<>>
  /\ pc = [s \in Slots |-> "idle"]
  /\ req = [s \in Slots |-> [command |-> "", params |-> NoParams]]
  /\ loc = [s \in Slots |-> InitLoc]
  /\ posted = <<>>
  /\ genCalls = [s \in Slots |-> 0]

\* one highlight request and nothing else touching the page; a timer that
\* was set fires after its 1500 ms and the lookup of its callback resolves
RevertSpec ==
  /\ InitRevert
  /\ [][NextHighlight]_vars
  /\ \A s \in Slots : WF_vars(HlTimer(s)) /\ WF_vars(HlRestore(s))

\* what the highlight may change of a layer
Appearance(d, n) ==
  [fills |-> d[n].fills, strokes |-> d[n].strokes,
   strokeWeight |-> d[n].strokeWeight, effects |-> d[n].shadow]

SameAppearance(d, d0) == \A n \in Nodes : Appearance(d, n) = Appearance(d0, n)

----------------------------------------------------------------------------
(* C24 *)

\* the id of the descriptor of message s resolves to a live node
IdResolves(s) ==
  /\ loc[s].searchData.present
  /\ GetNodeById(doc, loc[s].searchData.nodeId) # 0

\* C24: when the id of the descriptor resolves to a live node, the locator
\* returns exactly that node and the search root is not traversed, whatever
\* the frame id, name, rule type and rule fields of the descriptor; a
\* traversal took place only for a descriptor whose id is absent or does not
\* resolve
C24_FastPathReturnsTheIdNode ==
  \A s \in Slots :
    IsHighlight(s) =>
      /\ IdResolves(s) => /\ loc[s].ret.target = loc[s].searchData.nodeId
                          /\ ~loc[s].ret.viaSearch
      /\ loc[s].ret.viaSearch => ~IdResolves(s)

\* the id resolves to layer 4 while frame, name and radius of the descriptor
\* are those of layer 5, and layer 4 is returned
C24_Witness ==
  \E s \in Slots :
    /\ IsHighlight(s) /\ IdResolves(s)
    /\ loc[s].searchData.frameId = 1
    /\ loc[s].searchData.ruleId = "corner_radius"
    /\ loc[s].searchData.elementName = "Card"
    /\ loc[s].searchData.actualRadius = 8
    /\ doc[5].name = "Card" /\ doc[5].corners = Uniform(8)
    /\ loc[s].ret.target = 4

----------------------------------------------------------------------------
(* C25 *)

\* the rule types whose find function keeps a results array with scores
ScoredRules == {"corner_radius", "color_contrast_text", "color_contrast_ui"}

\* the nodes searchNode visits below the search root of message s
Visited(s) == Range(SearchWalk(doc, loc[s].searchData.frameId))

\* the score searchNode gives node n for the descriptor of message s, 0 for
\* a node it pushes no entry for
ScoreOf(s, n) == Candidate(doc, n, loc[s].searchData).score

\* C25 as stated: on the slow path the locator scores every visited node
\* and returns a node whose score is the maximum among all positively-scored
\* candidates, for every rule type; it returns null exactly when no visited
\* node scored positively, and never returns a node that scored zero.
C25_ReturnsMaxScoredForEveryRule ==
  \A s \in Slots :
    (IsHighlight(s) /\ SlowPath(s)) =>
      LET r == loc[s].ret
      IN  /\ r.target # 0 =>
               /\ r.score > 0
               /\ r.score = ScoreOf(s, r.target)
               /\ \A n \in Visited(s) : ScoreOf(s, n) <= r.score
          /\ (r.target = 0) <=> (\A n \in Visited(s) : ScoreOf(s, n) = 0)

\* C25 amended: on the slow path, for the rule types corner_radius,
\* color_contrast_text and color_contrast_ui the locator scores every node
\* that is visible together with its ancestors up to the search root and
\* returns a node whose score is the maximum among the positively-scored
\* ones, null exactly when none scored positively, never a node that scored
\* zero; for every other rule type nothing is scored: the first node in
\* document order, hidden ones included, whose name is the name looked for
\* ignoring case is returned, null when there is none or no name is given.
C25_ReturnsMaxScoredForScoredRules ==
  \A s \in Slots :
    (IsHighlight(s) /\ SlowPath(s)) =>
      LET r == loc[s].ret
          sd == loc[s].searchData
          sameIgnoringCase ==
            SelectSeq(Walk(doc, sd.frameId),
                      LAMBDA n : Lower(doc[n].name) = Lower(sd.elementName))
      IN  IF sd.ruleId \in ScoredRules
          THEN /\ r.target # 0 =>
                    /\ r.target \in Visited(s)
                    /\ r.score > 0
                    /\ r.score = ScoreOf(s, r.target)
                    /\ \A n \in Visited(s) : ScoreOf(s, n) <= r.score
               /\ (r.target = 0) <=> (\A n \in Visited(s) : ScoreOf(s, n) = 0)
          ELSE /\ r.score = 0
               /\ r.target = IF sd.elementName = "" \/ sameIgnoringCase = <<>>
                             THEN 0 ELSE sameIgnoringCase[1]

\* a corner_radius descriptor without id has been served by the search,
\* which pushed an entry of a lower score before the entry it returned
C25_Witness ==
  \E s \in Slots :
    /\ IsHighlight(s) /\ SlowPath(s)
    /\ loc[s].searchData.nodeId = 0
    /\ loc[s].searchData.ruleId = "corner_radius"
    /\ loc[s].ret.target # 0
    /\ LET res == Results(doc, loc[s].searchData.frameId, loc[s].searchData)
       IN  /\ res[1].score > 0
           /\ res[1].score < loc[s].ret.score

----------------------------------------------------------------------------
(* C29 *)

\* two highlight-qa-element messages for the text layer 4, by its id or by
\* its name within the page
OverlapDatas ==
  {SearchData(4, 0, "typeface", "", -1, ""),
   SearchData(0, 1, "typeface", "Label", -1, ""),
   SearchData(0, 1, "color_contrast_text", "Label", -1, "")}

ReceiveOverlap(s) == ReceiveHighlightFrom(s, OverlapDatas)

InitOverlap ==
  /\ doc \in RevertDocs
  /\ selection = <<>>
  /\ pc = [s \in Runs |-> "idle"]
  /\ req = [s \in Runs |-> [command |-> "", params |-> NoParams]]
  /\ loc = [s \in Runs |-> InitLoc]
  /\ posted = <<>>
  /\ genCalls = [s \in Runs |-> 0]

\* onmessage does not await highlightQAElement (85-87): the calls of two
\* messages and their timers interleave at every await
NextOverlap ==
  \E s \in Runs :
    \/ ReceiveOverlap(s)
    \/ HlIdResolved(s)
    \/ HlFrameResolved(s)
    \/ HlTimer(s)
    \/ HlRestore(s)

OverlapSpec == InitOverlap /\ [][NextOverlap]_vars

\* request b highlighted the node request a had highlighted before the
\* revert of a had fired: the copy b saved is the highlighted appearance
Overlapped(a, b) ==
  /\ a # b
  /\ pc[a] = "hl_settled" /\ pc[b] = "hl_settled"
  /\ loc[a].ret.applied /\ loc[b].ret.applied
  /\ loc[a].target = loc[b].target
  /\ loc[a].originalState.fills # "qa_highlight"
  /\ loc[b].originalState.fills = "qa_highlight"

\* C29: when a second highlight request for a node arrives before the
\* scheduled revert of an earlier highlight of the same node has fired, then
\* once all scheduled reverts have fired the node's fills, strokes and
\* stroke weight equal their values from before the first highlight.
C29_OverlappingHighlightsRestoreTheOriginal ==
  \A a, b \in Runs :
    (Overlapped(a, b) /\ loc[a].timer = "done" /\ loc[b].timer = "done") =>
      LET n == loc[a].target
      IN  /\ doc[n].fills = loc[a].originalState.fills
          /\ doc[n].strokes = loc[a].originalState.strokes
          /\ doc[n].strokeWeight = loc[a].originalState.strokeWeight

----------------------------------------------------------------------------
(* The qa module (modules/qa.js) *)

\* the calls of validateQARules(node) made on the module
QaCalls == {1, 2, 3}

\* let parent = node.parent; while (parent && no solid first fill) parent =
\* parent.parent; the colour found, white when the chain ends
QaBackground(d, n) ==
  LET c == AncestorFill(d, Parent(n))
  IN  IF c = "" THEN "white" ELSE c

\* validateColorContrastText(node) of the module: the text nodes of the
\* subtree that have characters and a solid first fill, against the nearest
\* solid ancestor; 4.5:1 is required, 3:1 from 18 px on (the layers are of
\* regular weight). The ratio is that of calculateContrastRatio, times 100
QaValidateColorContrastText(d, root) ==
  LET textNodes == SelectSeq(Walk(d, root), LAMBDA n : NodeType(n) = "TEXT")
      low == SelectSeq(textNodes, LAMBDA n :
               /\ d[n].characters # ""
               /\ SolidColor(d[n].fills) # ""
               /\ CalculateContrastRatio(SolidColor(d[n].fills), QaBackground(d, n))
                    < (IF FontSize(n) >= 18 THEN 300 ELSE 450))
  IN  [k \in 1..Len(low) |->
         [id |-> low[k], name |-> d[low[k]].name, type |-> "text",
          contrastRatio |-> CalculateContrastRatio(SolidColor(d[low[k]].fills),
                                                   QaBackground(d, low[k])),
          requiredRatio |-> IF FontSize(low[k]) >= 18 THEN 300 ELSE 450]]

\* validateColorContrastUI(node) of the module: the nodes of the subtree
\* named like a button, an icon or a control that have a fill, against the
\* nearest solid ancestor; 3:1 is required
QaValidateColorContrastUI(d, root) ==
  LET uiElements == SelectSeq(Walk(d, root), LAMBDA n :
                      NameWords(d[n].name) \cap {"button", "icon", "control"} # {})
      low == SelectSeq(uiElements, LAMBDA n :
               /\ d[n].fills # "none"
               /\ CalculateContrastRatio(d[n].fills, QaBackground(d, n)) < 300)
  IN  [k \in 1..Len(low) |->
         [id |-> low[k], name |-> d[low[k]].name, type |-> "ui",
          contrastRatio |-> CalculateContrastRatio(d[low[k]].fills, QaBackground(d, low[k])),
          requiredRatio |-> 300]]

\* validateCornerRadius(node) of the module: the nodes of the subtree named
\* like a card, an image or a photo, the rectangles and the frames, that
\* have a cornerRadius other than 6; currentRadius is -1 for figma.mixed
QaValidateCornerRadius(d, root) ==
  LET elements == SelectSeq(Walk(d, root), LAMBDA n :
                    \/ NameWords(d[n].name) \cap {"card", "image", "photo"} # {}
                    \/ NodeType(n) = "RECTANGLE"
                    \/ NodeType(n) = "FRAME" /\ d[n].corners # <<>>)
      wrong == SelectSeq(elements, LAMBDA n :
                 /\ d[n].corners # <<>>
                 /\ ~(AllSame(d[n].corners) /\ d[n].corners[1] = EXPECTED_RADIUS))
  IN  [k \in 1..Len(wrong) |->
         [id |-> wrong[k], name |-> d[wrong[k]].name, type |-> "cornerRadius",
          currentRadius |-> IF AllSame(d[wrong[k]].corners)
                            THEN d[wrong[k]].corners[1] ELSE -1,
          requiredRadius |-> EXPECTED_RADIUS]]

\* the violations object validateQARules builds when it evaluates the node
\* (22-45)
QaViolations(d, n) ==
  [colorContrastText |-> QaValidateColorContrastText(d, n),
   colorContrastUI |-> QaValidateColorContrastUI(d, n),
   cornerRadius |-> QaValidateCornerRadius(d, n)]

\* cachedQAResults (6): the Map holds, under the id of every node a call
\* has evaluated, the object that call returned; entries are never deleted
\* or replaced, so every finished call on the node holds the same object
CachedHas(id) == \E r \in QaCalls : pc[r] = "qa_done" /\ loc[r].target = id

CachedGet(id) ==
  loc[CHOOSE r \in QaCalls : pc[r] = "qa_done" /\ loc[r].target = id].ret.violations

\* validateQARules(node) (16-51), which awaits nothing: the cached object of
\* the node's id if there is one, else a fresh evaluation, which is cached
QaValidateQARules(s) ==
  /\ pc[s] = "idle"
  /\ \E n \in Nodes :
       /\ doc[n].exists
       /\ req' = [req EXCEPT ![s] = [command |-> "qa.validateQARules", params |-> NoParams]]
       /\ loc' = [loc EXCEPT ![s] =
                    [InitLoc EXCEPT
                       !.target = n,
                       !.ret = [kind |-> "qa_violations",
                                violations |-> IF CachedHas(n) THEN CachedGet(n)
                                               ELSE QaViolations(doc, n)]]]
  /\ pc' = [pc EXCEPT ![s] = "qa_done"]
  /\ UNCHANGED <<doc, selection, posted, genCalls>>

\* set_corner_radius without corners (modules/styling.js 167-242):
\* node.cornerRadius = radius on a node that has corner radii
SetCornerRadius ==
  /\ \E n \in Nodes, radius \in {0, EXPECTED_RADIUS} :
       /\ doc[n].exists
       /\ doc[n].corners # <<>>
       /\ doc[n].corners # Uniform(radius)
       /\ doc' = [doc EXCEPT ![n].corners = Uniform(radius)]
  /\ UNCHANGED <<selection, pc, req, loc, posted, genCalls>>

\* pages without mixed fills: a photo or an icon button, dark or white text
CacheDocs ==
  {[Page EXCEPT ![5].name = n5, ![2].fills = f2] :
     n5 \in {"Photo", "Icon Button"}, f2 \in {"solid", "white"}}

InitQaModule ==
  /\ doc \in CacheDocs
  /\ selection = <<>>
  /\ pc = [s \in QaCalls |-> "idle"]
  /\ req = [s \in QaCalls |-> [command |-> "", params |-> NoParams]]
  /\ loc = [s \in QaCalls |-> InitLoc]
  /\ posted = <<>>
  /\ genCalls = [s \in QaCalls |-> 0]

NextQaModule ==
  \/ \E s \in QaCalls : QaValidateQARules(s)
  \/ SetCornerRadius

QaModuleSpec == InitQaModule /\ [][NextQaModule]_vars

----------------------------------------------------------------------------
(* C30 *)

\* C30: every call of the qa module's validateQARules(node) returns the
\* violations computed from the node's subtree as it is at the time of that
\* call: after any sequence of validate calls and node edits, the returned
\* violations equal what a fresh evaluation of the current subtree gives.
C30_ValidateReturnsFreshViolations ==
  [][\A s \in QaCalls :
       (pc[s] = "idle" /\ pc'[s] = "qa_done") =>
         loc'[s].ret.violations = QaViolations(doc', loc'[s].target)]_vars

----------------------------------------------------------------------------
(* C22 *)

IsBatch(s) == (IsDelete(s) \/ IsSetText(s)) /\ loc[s].items # <<>>

\* the chunk (0-based) of the item at position k of the list
ChunkOf(k) == (k - 1) \div CHUNK_SIZE

\* the in_progress events posted for message s so far
InProgress(s) == SelectSeq(Events(s), LAMBDA m : m.status = "in_progress")

\* C22: in every batch command the chunks are processed strictly in list
\* order and chunk k fully completes before chunk k+1 begins: once an item
\* has started, every item of every earlier chunk has finished and been
\* counted, no item of a later chunk has started, and the in_progress event
\* after each earlier chunk has been posted (after the 5% event, the events
\* before and after chunk c are the in_progress events 2c+2 and 2c+3).
C22_ChunksRunOneAfterTheOther ==
  \A s \in Slots :
    IsBatch(s) =>
      \A k \in 1..Len(loc[s].items) :
        loc[s].itemPc[k] # "new" =>
          /\ ChunkOf(k) <= loc[s].chunkIndex
          /\ \A j \in 1..Len(loc[s].items) :
               ChunkOf(j) < ChunkOf(k) => loc[s].itemPc[j] = "done"
          /\ Len(InProgress(s)) >= 2 * ChunkOf(k) + 1
          /\ ChunkOf(k) > 0 =>
               InProgress(s)[2 * ChunkOf(k) + 1].processedItems = ChunkOf(k) * CHUNK_SIZE

\* an item of the second chunk is running, the first chunk being done
C22_Witness ==
  \E s \in Slots :
    /\ IsBatch(s)
    /\ Len(loc[s].items) > CHUNK_SIZE
    /\ loc[s].itemPc[CHUNK_SIZE + 1] \in {"lookup", "stc_lookup"}
    /\ \A j \in 1..CHUNK_SIZE : loc[s].itemPc[j] = "done"

----------------------------------------------------------------------------
(* C23 *)

\* message s is in the middle of a chunk of its list / between or after
\* the chunks
InChunk(s) == pc[s] \in {"del_chunk", "set_chunk"}
PastChunk(s) == pc[s] \in {"del_delay", "set_delay", "returned", "replied"}

\* deletion and text replacement: while a chunk runs every item of it has
\* been started, whether or not any has finished, and none of a later chunk;
\* the chunk is left only when all its items have finished
BatchItemsStartTogether(s) ==
  IsBatch(s) =>
    \A k \in 1..Len(loc[s].items) :
      /\ (InChunk(s) /\ ChunkOf(k) = loc[s].chunkIndex) => loc[s].itemPc[k] # "new"
      /\ (PastChunk(s) /\ ChunkOf(k) <= loc[s].chunkIndex) => loc[s].itemPc[k] = "done"

\* the chunked scan is at a node of a chunk: at its highlight or at the
\* delay after it
InScanChunk(s) == IsChunkedScan(s) /\ pc[s] \in {"scan_hold", "scan_gap"}

\* how many nodes of the running chunk of the scan have been started, and
\* how many have been processed
ScanStarted(s) == loc[s].k
ScanFinished(s) == IF pc[s] = "scan_gap" THEN loc[s].k ELSE loc[s].k - 1

\* C23 as stated: in all three instantiations of the scheduler (deletion,
\* text replacement, text-node discovery scanning), all items of a chunk are
\* started together, before any item of that chunk has finished, and the
\* chunk completes when all have finished.
C23_ItemsStartTogetherEverywhere ==
  \A s \in Slots :
    /\ BatchItemsStartTogether(s)
    /\ (InScanChunk(s) /\ ScanFinished(s) > 0) =>
         ScanStarted(s) = Len(loc[s].chunkNodes)

\* C23 amended: in deletion and text replacement all items of a chunk are
\* started together, before any item of that chunk has finished, and the
\* chunk completes when all have finished; in the text-node scan the nodes
\* of a chunk are processed one at a time in list order, a node being
\* started only when all nodes before it in the chunk have been processed,
\* and the chunk completes when the last one has.
C23_ItemsStartTogetherInBatches ==
  \A s \in Slots :
    /\ BatchItemsStartTogether(s)
    /\ InScanChunk(s) =>
         /\ ScanStarted(s) \in 1..Len(loc[s].chunkNodes)
         /\ ScanFinished(s) >= ScanStarted(s) - 1
         /\ \A j \in 1..Len(loc[s].chunkTextNodes) :
              \E i \in 1..ScanFinished(s) : loc[s].chunkNodes[i] = loc[s].chunkTextNodes[j]
         /\ \A n \in Nodes :
              doc[n].fills = "orange" =>
                (pc[s] = "scan_hold" /\ n = loc[s].chunkNodes[loc[s].k])

\* a chunk of text replacements with two items waiting at their lookup and
\* none finished
C23_Witness ==
  \E s \in Slots :
    /\ IsSetText(s) /\ IsBatch(s) /\ InChunk(s)
    /\ Cardinality({k \in 1..Len(loc[s].items) : loc[s].itemPc[k] = "lookup"}) >= 2
    /\ \A k \in 1..Len(loc[s].items) : loc[s].itemPc[k] # "done"

----------------------------------------------------------------------------
(* The entries of the two scans: id, path and depth *)

\* collectNodesToProcess pushing the path of the parent, without the node's
\* own name
RECURSIVE CollectWithParentPath(_, _, _, _)
RECURSIVE CollectWithParentPathAll(_, _, _, _, _)
CollectWithParentPath(d, n, parentPath, depth) ==
  IF ~d[n].visible THEN <<>>
  ELSE <<[node |-> n, parentPath |-> parentPath, depth |-> depth]>>
       \o CollectWithParentPathAll(d, Children(n), 1, Append(parentPath, d[n].name), depth + 1)
CollectWithParentPathAll(d, kids, k, path, depth) ==
  IF k > Len(kids) THEN <<>>
  ELSE CollectWithParentPath(d, kids[k], path, depth)
       \o CollectWithParentPathAll(d, kids, k + 1, path, depth)

\* collectNodesToProcess (1676-1701): an entry { node, parentPath: nodePath,
\* depth } for every visible node in pre-order, nodePath being the names
\* from the scanned node down to the node itself
RECURSIVE CollectNodesToProcess(_, _, _, _)
RECURSIVE CollectChildren(_, _, _, _, _)
CollectNodesToProcess(d, n, parentPath, depth) ==
  IF ~d[n].visible THEN <<>>
  ELSE LET nodePath == Append(parentPath, d[n].name)
       IN  <<[node |-> n, parentPath |-> nodePath, depth |-> depth]>>
           \o CollectChildren(d, Children(n), 1, nodePath, depth + 1)
CollectChildren(d, kids, k, path, depth) ==
  IF k > Len(kids) THEN <<>>
  ELSE CollectNodesToProcess(d, kids[k], path, depth)
       \o CollectChildren(d, kids, k + 1, path, depth)

\* the safeTextNode of processTextNode(node, parentPath, depth) (1720-1734)
\* as far as id, path (the names that are joined) and depth go
ProcessTextNode(info) ==
  [id |-> info.node, path |-> info.parentPath, depth |-> info.depth]

\* the chunk loop of scanTextNodes from index i on (1570-1646): the text
\* nodes of nodesToProcess.slice(i, chunkEnd) in order, then the next chunk
RECURSIVE ChunkedTextNodes(_, _, _)
ChunkedTextNodes(nodesToProcess, i, chunkSize) ==
  IF ~(i < Len(nodesToProcess)) THEN <<>>
  ELSE LET chunkEnd == Min(i + chunkSize, Len(nodesToProcess))
           chunkNodes == JsSlice(nodesToProcess, i, chunkEnd)
           texts == SelectSeq(chunkNodes, LAMBDA info : NodeType(info.node) = "TEXT")
       IN  [k \in 1..Len(texts) |-> ProcessTextNode(texts[k])]
           \o ChunkedTextNodes(nodesToProcess, i + chunkSize, chunkSize)

\* findTextNodes(node, parentPath, depth, textNodes) (1773-1848): what it
\* pushes, in order
RECURSIVE FindTextNodes(_, _, _, _)
RECURSIVE FindTextNodesAll(_, _, _, _, _)
FindTextNodes(d, n, parentPath, depth) ==
  IF ~d[n].visible THEN <<>>
  ELSE LET nodePath == Append(parentPath, d[n].name)
       IN  (IF NodeType(n) = "TEXT"
            THEN <<[id |-> n, path |-> nodePath, depth |-> depth]>> ELSE <<>>)
           \o FindTextNodesAll(d, Children(n), 1, nodePath, depth + 1)
FindTextNodesAll(d, kids, k, path, depth) ==
  IF k > Len(kids) THEN <<>>
  ELSE FindTextNodes(d, kids[k], path, depth)
       \o FindTextNodesAll(d, kids, k + 1, path, depth)

----------------------------------------------------------------------------
(* C26 *)

Ids(entries) == [k \in 1..Len(entries) |-> entries[k].id]

\* C26: for every node tree and every chunkSize >= 1, scan_text_nodes with
\* useChunking true and with useChunking false return the same textNodes
\* sequence (same nodes, in the same pre-order, with the same path and
\* depth) and report the same number of text nodes: on the page of a scan
\* that has returned, the entries of the chunk loop are those of
\* findTextNodes for every chunkSize >= 1, and the scan, chunked with a
\* chunkSize >= 1 or not chunked, has returned these nodes and their number.
C26_ChunkedAndUnchunkedScansAgree ==
  \A s \in Slots :
    (Returned(s) /\ IsScan(s)) =>
      LET root == req[s].params.nodeId
          unchunked == FindTextNodes(doc, root, <<>>, 0)
      IN  /\ \A cs \in (1..MaxChunkSize) \cup {DefaultChunkSize} :
               ChunkedTextNodes(CollectNodesToProcess(doc, root, <<>>, 0), 0, cs) = unchunked
          /\ (IsChunkedScan(s) => req[s].params.chunkSize >= 1) =>
               /\ loc[s].ret.textNodes = Ids(unchunked)
               /\ loc[s].ret.count = Len(unchunked)

\* a chunked scan of the page with chunkSize 2 has returned two text nodes
\* of different depths, found in different chunks
C26_Witness ==
  \E s \in Slots :
    /\ Returned(s) /\ IsChunkedScan(s)
    /\ req[s].params.chunkSize = 2
    /\ loc[s].ret.textNodes = <<2, 4>>
    /\ FindTextNodes(doc, req[s].params.nodeId, <<>>, 0)[2].depth = 2

----------------------------------------------------------------------------
(* C27 *)

\* the page as it was before the one command of a run: the text commands
\* change neither visibility nor fonts nor mixed fills, which tell the pages
\* of InitDocs apart
PageBefore ==
  CHOOSE d0 \in InitDocs :
    \A n \in Nodes : /\ d0[n].visible = doc[n].visible
                     /\ d0[n].font = doc[n].font
                     /\ (d0[n].fills = "mixed") <=> (doc[n].fills = "mixed")

\* item k of the list of message s is the only one that names its node
OnlyItemOfItsNode(s, k) ==
  \A j \in 1..Len(loc[s].items) :
    j # k => loc[s].items[j].nodeId # loc[s].items[k].nodeId

\* C27: in set_multiple_text_contents an item reported as failed leaves its
\* target node unchanged: after the command has completed, the node's fills
\* and characters equal their values before the command, also when the
\* failure occurs after the temporary highlight fill was applied (no other
\* item of the list naming the node).
C27_FailedItemLeavesNodeUnchanged ==
  \A s \in Slots :
    (Returned(s) /\ IsSetText(s)) =>
      \A k \in 1..Len(loc[s].items) :
        LET n == GetNodeById(doc, loc[s].items[k].nodeId)
        IN  (~loc[s].itemRes[k].success /\ n # 0 /\ OnlyItemOfItsNode(s, k)) =>
              /\ doc[n].fills = PageBefore[n].fills
              /\ doc[n].characters = PageBefore[n].characters

----------------------------------------------------------------------------
(* C28 *)

\* the live text nodes the list of message s names
Targeted(s) ==
  {n \in Nodes : /\ doc[n].exists /\ NodeType(n) = "TEXT"
                 /\ \E k \in 1..Len(loc[s].items) : loc[s].items[k].nodeId = n}

\* every item of the list of message s is reported as a success
AllSucceeded(s) == \A k \in 1..Len(loc[s].items) : loc[s].itemRes[k].success

\* C28: after set_multiple_text_contents has completed, every targeted text
\* node's fills equal its fills before the command (the orange highlight is
\* never left behind), also when the same nodeId appears more than once in
\* the text list and the duplicates fall into the same chunk and run
\* interleaved; stated for the commands none of whose items failed.
C28_HighlightNeverLeftBehind ==
  \A s \in Slots :
    (Returned(s) /\ IsSetText(s) /\ AllSucceeded(s)) =>
      \A n \in Targeted(s) : doc[n].fills = PageBefore[n].fills

====
